---- MODULE Spec2Model ----
(***************************************************************************)
(* State-machine model of the audiobook generator's segment cache          *)
(* (cache.ts), of the generate run that drives it (cli.ts,                 *)
(* generateAudiobook) and of the Gemini TTS provider's retry loops         *)
(* (tts-provider.ts, generateAudio / withRetry).                           *)
(*                                                                         *)
(* Conventions.  A JavaScript value that may be null/undefined is a        *)
(* sequence of length <= 1: None is <<>>, Some(x) is <<x>>.  An md5 digest *)
(* is the symbolic term <<"md5", input>>: deterministic and injective, as  *)
(* a collision-resistant hash is taken to be.  Timestamps (generatedAt,    *)
(* lastUpdated) are left out of the records: no decision of the code       *)
(* reads them.                                                             *)
(***************************************************************************)
EXTENDS Integers, Sequences, FiniteSets, TLC

VARIABLES
    manifest,    \* cache spec: the in-memory CacheManifest, None before one exists
    disk,        \* cache spec: the audio files present (set of paths)
    lastUpsert,  \* cache spec (history): per segment id, the data of its latest upsert
    hit,         \* cache spec: the last isSegmentCached call, None when none is recorded
    plan,        \* cache spec: the last planner call, None when none is recorded
    mut,         \* cache spec: the last mutating call, None when none is recorded
    savedManifest, \* run spec: the content of manifest.json, None while there is none
    storyFile,   \* run spec: the lines of the story file
    configFile,  \* run spec: the configuration a run is started with
    run,         \* run spec: the locals of generateAudiobook and its position
    tts,         \* provider spec: the locals of one generateAudio request
    pool,        \* pool spec: the locals of one processWithConcurrency call
    stitch       \* stitch spec: the arguments and the outcome of one stitchAudioFiles call

vars == <<manifest, disk, lastUpsert, hit, plan, mut,
          savedManifest, storyFile, configFile, run, tts, pool, stitch>>

cacheCallVars == <<lastUpsert, hit, plan, mut>>
runVars == <<savedManifest, storyFile, configFile, run>>

None == <<>>
Some(x) == <<x>>

(***************************************************************************)
(* Bounds of the model.                                                    *)
(***************************************************************************)
MaxIndex == 1      \* story positions are 0..MaxIndex
MaxEntries == 2    \* the manifest holds at most this many entries

(***************************************************************************)
(* The small world the inputs are drawn from.                              *)
(***************************************************************************)
Indexes == 0..MaxIndex

\* (speaker, text) of the lines a script can hold at a position: the first
\* line exists with and without a typo, the others are fixed
LinesAt(i) ==
    CASE i = 0 -> { <<"NARRATOR", "a tyme">>, <<"NARRATOR", "a time">> }
      [] i % 2 = 1 -> { <<"ALICE", "Hello">> }
      [] OTHER -> { <<"NARRATOR", "The end">> }

\* String.prototype.toUpperCase on the names of this world
toUpperCase(s) ==
    CASE s \in {"NARRATOR", "Narrator", "narrator"} -> "NARRATOR"
      [] s \in {"ALICE", "Alice", "alice"} -> "ALICE"
      [] s \in {"CHARACTER1", "Character1", "character1"} -> "CHARACTER1"
      [] s \in {"BOB", "Bob", "bob"} -> "BOB"
      [] OTHER -> s

(***************************************************************************)
(* parser.ts                                                               *)
(***************************************************************************)
md5(x) == <<"md5", x>>

generateSegmentId(index, speaker, text) ==
    <<"seg", index, md5(<<index, speaker, text>>)>>

\* the Segment that flushSegment builds for a line at a position
Segment(index, line) ==
    [ id |-> generateSegmentId(index, line[1], line[2]),
      index |-> index,
      speaker |-> line[1],
      text |-> line[2] ]

Segments == UNION { { Segment(i, l) : l \in LinesAt(i) } : i \in Indexes }

SegmentIds == { s.id : s \in Segments }

(***************************************************************************)
(* config.ts                                                               *)
(***************************************************************************)
GEMINI_VOICES == <<"Zephyr", "Puck", "Charon", "Kore">>

\* DEFAULT_VOICES: the built-in defaults by speaker name, None for other names
DEFAULT_VOICES(name) ==
    CASE name = "NARRATOR" ->
            Some([ voiceName |-> Some("Zephyr"),
                   stylePrompt |-> Some("Calm, measured storytelling voice"),
                   speed |-> Some(10) ])
      [] name = "CHARACTER1" ->
            Some([ voiceName |-> Some("Kore"),
                   stylePrompt |-> Some("Warm, friendly voice"),
                   speed |-> Some(10) ])
      [] name = "CHARACTER2" ->
            Some([ voiceName |-> Some("Charon"),
                   stylePrompt |-> Some("Deep, authoritative voice"),
                   speed |-> Some(10) ])
      [] OTHER -> None

\* a VoiceConfig; speed is in tenths (10 is 1.0)
Voice(name, seed, style, voiceName) ==
    [ name |-> name, seed |-> seed, stylePrompt |-> style,
      voiceName |-> voiceName, speed |-> Some(10),
      pitch |-> None, extraParams |-> None ]

\* The configs of this world: the narrator's style prompt is edited between
\* the first two, in which ALICE has no voice of her own; the third adds a
\* default voice with a seed of its own.
ConfigCalm ==
    [ voices |-> << Voice("Narrator", None, Some("calm"), Some("Kore")) >>,
      defaultVoice |-> None,
      globalSeed |-> Some(12345),
      provider |-> "gemini",
      format |-> "wav" ]

ConfigDramatic ==
    [ ConfigCalm EXCEPT
        !.voices = << Voice("Narrator", None, Some("dramatic"), Some("Kore")) >> ]

ConfigWithDefault ==
    [ ConfigCalm EXCEPT
        !.defaultVoice = Some(Voice("default", Some(7), Some("plain"), Some("Puck"))) ]

Configs == { ConfigCalm, ConfigDramatic, ConfigWithDefault }

RECURSIVE FindVoice(_, _)
\* config.voices.find(v => v.name.toUpperCase() === normalizedSpeaker)
FindVoice(voices, normalizedSpeaker) ==
    IF voices = <<>> THEN None
    ELSE IF toUpperCase(Head(voices).name) = normalizedSpeaker
         THEN Some(Head(voices))
         ELSE FindVoice(Tail(voices), normalizedSpeaker)

\* a ?? b
Coalesce(a, b) == IF a = None THEN b ELSE a

getVoiceConfig_GlobalSeedFirst(config, speaker) ==
    LET normalizedSpeaker == toUpperCase(speaker)
        exactMatch == FindVoice(config.voices, normalizedSpeaker)
        builtinDefault == DEFAULT_VOICES(normalizedSpeaker)
    IN  IF exactMatch # None
        THEN [ exactMatch[1] EXCEPT
                 !.seed = Coalesce(config.globalSeed, exactMatch[1].seed) ]
        ELSE IF config.defaultVoice # None
        THEN [ config.defaultVoice[1] EXCEPT
                 !.name = speaker,
                 !.seed = Coalesce(config.globalSeed, config.defaultVoice[1].seed) ]
        ELSE IF builtinDefault # None
        THEN [ name |-> speaker, seed |-> config.globalSeed,
               stylePrompt |-> builtinDefault[1].stylePrompt,
               voiceName |-> builtinDefault[1].voiceName,
               speed |-> builtinDefault[1].speed,
               pitch |-> None, extraParams |-> None ]
        ELSE [ name |-> speaker, seed |-> config.globalSeed,
               stylePrompt |-> Some("Natural speaking voice"),
               voiceName |-> Some(GEMINI_VOICES[1]),
               speed |-> Some(10),
               pitch |-> None, extraParams |-> None ]

getVoiceConfig(config, speaker) ==
    LET normalizedSpeaker == toUpperCase(speaker)
        exactMatch == FindVoice(config.voices, normalizedSpeaker)
        builtinDefault == DEFAULT_VOICES(normalizedSpeaker)
    IN  IF exactMatch # None
        THEN [ exactMatch[1] EXCEPT
                 !.seed = Coalesce(exactMatch[1].seed, config.globalSeed) ]
        ELSE IF config.defaultVoice # None
        THEN [ config.defaultVoice[1] EXCEPT
                 !.name = speaker,
                 !.seed = Coalesce(config.defaultVoice[1].seed, config.globalSeed) ]
        ELSE IF builtinDefault # None
        THEN [ name |-> speaker, seed |-> config.globalSeed,
               stylePrompt |-> builtinDefault[1].stylePrompt,
               voiceName |-> builtinDefault[1].voiceName,
               speed |-> builtinDefault[1].speed,
               pitch |-> None, extraParams |-> None ]
        ELSE [ name |-> speaker, seed |-> config.globalSeed,
               stylePrompt |-> Some("Natural speaking voice"),
               voiceName |-> Some(GEMINI_VOICES[1]),
               speed |-> Some(10),
               pitch |-> None, extraParams |-> None ]

hashVoiceConfig_NoSpeed(voice) ==
    md5(<< voice.name, voice.seed, voice.stylePrompt, voice.voiceName,
           voice.pitch, voice.extraParams >>)

\* md5 of JSON.stringify of the seven relevant fields, in this order
hashVoiceConfig(voice) ==
    md5(<< voice.name, voice.seed, voice.stylePrompt, voice.voiceName,
           voice.speed, voice.pitch, voice.extraParams >>)

\* md5 of JSON.stringify(config)
hashConfig(config) == md5(config)

(***************************************************************************)
(* cache.ts: fingerprints and paths                                        *)
(***************************************************************************)
CACHE_VERSION == "1.0.0"

hashText(text) == md5(text)

generateSegmentHash(segment, config) ==
    LET voiceConfig == getVoiceConfig(config, segment.speaker)
        textHash == hashText(segment.text)
        voiceHash == hashVoiceConfig(voiceConfig)
    IN  [ textHash |-> textHash,
          voiceHash |-> voiceHash,
          combinedHash |-> md5(<<textHash, "-", voiceHash>>) ]

\* storyHash.substring(0, 8)
substring8(hash) == <<"sub8", hash>>

\* join(outputDir, ".audiobook-cache") for the one output directory of this
\* world, and the story's subfolder when a storyHash is passed
getCacheDir(storyHash) ==
    IF storyHash # None
    THEN <<"out", ".audiobook-cache", substring8(storyHash[1])>>
    ELSE <<"out", ".audiobook-cache">>

\* path.join of a directory and a file name
join(dir, name) == <<dir, name>>

\* path.basename
basename(path) == IF path = <<>> THEN <<>> ELSE path[2]

\* join(getCacheDir(outputDir, storyHash), "segments",
\*      `${segmentId}.${format}`)
getCachedSegmentPath(segmentId, format, storyHash) ==
    join(<<getCacheDir(storyHash), "segments">>, <<segmentId, format>>)

createEmptyManifest(storyHash, configHash) ==
    [ version |-> CACHE_VERSION,
      storyHash |-> storyHash,
      configHash |-> configHash,
      segments |-> <<>> ]

(***************************************************************************)
(* cache.ts: the cache-hit predicate and the planner                       *)
(***************************************************************************)
RECURSIVE FindEntry(_, _)
\* segments.find(s => s.segmentId === id): the first entry with the id
FindEntry(segments, id) ==
    IF segments = <<>> THEN None
    ELSE IF Head(segments).segmentId = id
         THEN Some(Head(segments))
         ELSE FindEntry(Tail(segments), id)

\* a mutant of isSegmentCached: the success flag is not looked at
isSegmentCached_IgnoreSuccess(m, segment, config) ==
    IF m = None THEN None
    ELSE LET cached == FindEntry(m[1].segments, segment.id)
         IN  IF cached = None THEN None
             ELSE IF cached[1].hash.combinedHash #
                       generateSegmentHash(segment, config).combinedHash
                  THEN None
                  ELSE cached

\* m is None (null) or Some(manifest)
isSegmentCached(m, segment, config) ==
    IF m = None THEN None
    ELSE LET cached == FindEntry(m[1].segments, segment.id)
         IN  IF cached = None THEN None
             ELSE IF ~cached[1].success THEN None
             ELSE IF cached[1].hash.combinedHash #
                       generateSegmentHash(segment, config).combinedHash
                  THEN None
                  ELSE cached

RECURSIVE getSegmentsToGenerate(_, _, _)
\* segments.filter(segment => isSegmentCached(...) === null)
getSegmentsToGenerate(m, segments, config) ==
    IF segments = <<>> THEN <<>>
    ELSE LET rest == getSegmentsToGenerate(m, Tail(segments), config)
         IN  IF isSegmentCached(m, Head(segments), config) = None
             THEN <<Head(segments)>> \o rest
             ELSE rest

RECURSIVE getCachedSegments_AnyEntry(_, _, _)
\* a mutant of getCachedSegments: every segment with an entry counts as cached
getCachedSegments_AnyEntry(m, segments, config) ==
    IF segments = <<>> THEN <<>>
    ELSE LET cached == IF m = None THEN None
                       ELSE FindEntry(m[1].segments, Head(segments).id)
             rest == getCachedSegments_AnyEntry(m, Tail(segments), config)
         IN  IF cached # None
             THEN <<[segment |-> Head(segments), cached |-> cached[1]]>> \o rest
             ELSE rest

RECURSIVE getCachedSegments(_, _, _)
\* the loop that pushes {segment, cached} for every hit
getCachedSegments(m, segments, config) ==
    IF segments = <<>> THEN <<>>
    ELSE LET cached == isSegmentCached(m, Head(segments), config)
             rest == getCachedSegments(m, Tail(segments), config)
         IN  IF cached # None
             THEN <<[segment |-> Head(segments), cached |-> cached[1]]>> \o rest
             ELSE rest

(***************************************************************************)
(* cache.ts: manifest mutations                                            *)
(***************************************************************************)
RECURSIVE InsertByIndex(_, _)
\* puts e behind every element whose index is not larger: one step of a
\* stable sort with the comparator (a, b) => a.index - b.index
InsertByIndex(sorted, e) ==
    IF sorted = <<>> THEN <<e>>
    ELSE IF Head(sorted).index <= e.index
         THEN <<Head(sorted)>> \o InsertByIndex(Tail(sorted), e)
         ELSE <<e>> \o sorted

RECURSIVE SortByIndexStable(_)
SortByIndexStable(s) ==
    IF s = <<>> THEN <<>>
    ELSE InsertByIndex(SortByIndexStable(SubSeq(s, 1, Len(s) - 1)), s[Len(s)])

\* a mutant of sortByIndex: the sort is left out
sortByIndex_NoSort(s) == s

\* Array.prototype.sort((a, b) => a.index - b.index), which is stable
sortByIndex(s) == SortByIndexStable(s)

\* segments.filter(s => s.segmentId !== id)
FilterOutId(segments, id) ==
    SelectSeq(segments, LAMBDA s : s.segmentId # id)

\* a mutant of updateCachedSegment: the existing entry is not removed
updateCachedSegment_LosesOthers(m, segment, config, result) ==
    [ m EXCEPT !.segments =
          << [ segmentId |-> segment.id,
               index |-> segment.index,
               speaker |-> segment.speaker,
               audioPath |-> result.audioPath,
               durationMs |-> result.durationMs,
               fileSize |-> result.fileSize,
               hash |-> generateSegmentHash(segment, config),
               provider |-> config.provider,
               success |-> result.success,
               error |-> result.error ] >> ]

updateCachedSegment_NoFilter(m, segment, config, result) ==
    [ m EXCEPT !.segments =
        sortByIndex(m.segments \o
          << [ segmentId |-> segment.id,
               index |-> segment.index,
               speaker |-> segment.speaker,
               audioPath |-> result.audioPath,
               durationMs |-> result.durationMs,
               fileSize |-> result.fileSize,
               hash |-> generateSegmentHash(segment, config),
               provider |-> config.provider,
               success |-> result.success,
               error |-> result.error ] >>) ]

updateCachedSegment(m, segment, config, result) ==
    LET cachedSegment ==
            [ segmentId |-> segment.id,
              index |-> segment.index,
              speaker |-> segment.speaker,
              audioPath |-> result.audioPath,
              durationMs |-> result.durationMs,
              fileSize |-> result.fileSize,
              hash |-> generateSegmentHash(segment, config),
              provider |-> config.provider,
              success |-> result.success,
              error |-> result.error ]
        filteredSegments == FilterOutId(m.segments, segment.id)
    IN  [ m EXCEPT !.segments = sortByIndex(filteredSegments \o <<cachedSegment>>) ]

argumentAfterUpdate_PushedInPlace(m, segment, config, result) ==
    updateCachedSegment(m, segment, config, result)

\* the object passed to updateCachedSegment as `manifest`, after the call:
\* the spread, filter and the array literal build new objects, and nothing
\* is assigned to the object passed in or to its segments array
argumentAfterUpdate(m, segment, config, result) == m

\* the object passed to removeCachedSegment as `manifest`, after the call
argumentAfterRemove(m, segmentId) == m

\* removeCachedSegment: the new manifest, and the disk after the unlink of
\* getCachedSegmentPath(outputDir, segmentId), tried only when an entry exists
removeCachedSegment(d, m, segmentId) ==
    LET cached == FindEntry(m.segments, segmentId)
    IN  [ manifest |-> [ m EXCEPT !.segments = FilterOutId(m.segments, segmentId) ],
          disk |-> IF cached # None
                   THEN d \ { getCachedSegmentPath(segmentId, "wav", None) }
                   ELSE d ]

\* getSegmentsWithStyleChanges: every segment when there is no manifest;
\* else the segments of the given speakers (of all, when none is given)
\* that have no entry or an entry with another voiceHash.  speakers is
\* None or Some(set of names).
getSegmentsWithStyleChanges(m, segments, config, speakers) ==
    IF m = None THEN segments
    ELSE LET normalizedSpeakers ==
                 IF speakers = None THEN None
                 ELSE Some({ toUpperCase(s) : s \in speakers[1] })
         IN  SelectSeq(segments, LAMBDA segment :
                IF /\ normalizedSpeakers # None
                   /\ toUpperCase(segment.speaker) \notin normalizedSpeakers[1]
                THEN FALSE
                ELSE LET cached == FindEntry(m[1].segments, segment.id)
                     IN  IF cached = None THEN TRUE
                         ELSE cached[1].hash.voiceHash #
                                generateSegmentHash(segment, config).voiceHash)

RECURSIVE RemoveEach(_, _, _)
\* the loop  for (const s of list) updated = await removeCachedSegment(..)
RemoveEach(d, m, entries) ==
    IF entries = <<>> THEN [ manifest |-> m, disk |-> d ]
    ELSE LET r == removeCachedSegment(d, m, Head(entries).segmentId)
         IN  RemoveEach(r.disk, r.manifest, Tail(entries))

cleanStaleCacheEntries(d, m, currentSegmentIds) ==
    LET staleSegments ==
            SelectSeq(m.segments, LAMBDA s : s.segmentId \notin currentSegmentIds)
    IN  RemoveEach(d, m, staleSegments)

invalidateSpeakerCache(d, m, speakers) ==
    LET normalizedSpeakers == { toUpperCase(s) : s \in speakers }
        toInvalidate ==
            SelectSeq(m.segments,
                      LAMBDA s : toUpperCase(s.speaker) \in normalizedSpeakers)
    IN  RemoveEach(d, m, toInvalidate)

(***************************************************************************)
(* The cache specification: the manifest under its mutations, and the      *)
(* cache-hit predicate and the planner applied to it.                      *)
(***************************************************************************)
\* the outcome a caller records for a segment: what generateAudio returned
ResultsFor(segment, config) ==
    { [ audioPath |-> getCachedSegmentPath(segment.id, config.format, None),
        durationMs |-> 1200, fileSize |-> 57644,
        success |-> TRUE, error |-> None ],
      [ audioPath |-> <<>>, durationMs |-> 0, fileSize |-> 0,
        success |-> FALSE, error |-> Some("API error") ] }

RECURSIVE StoryFrom(_, _)
\* the segments of the chosen lines, in position order
StoryFrom(f, i) ==
    IF i > MaxIndex THEN <<>>
    ELSE (IF f[i] = None THEN <<>> ELSE <<Segment(i, f[i][1])>>)
         \o StoryFrom(f, i + 1)

\* the segment lists a parse, a speaker filter or a range can hand over
Stories ==
    { StoryFrom(f, 0) :
        f \in { g \in [Indexes -> {None} \cup { Some(l) : l \in UNION { LinesAt(i) : i \in Indexes } }] :
                   \A i \in Indexes : g[i] = None \/ g[i][1] \in LinesAt(i) } }

SpeakerArgs == { {"narrator"}, {"Alice"}, {"NARRATOR", "alice"} }

\* the record of a call is dropped before the next operation
NoCallRecorded == hit = None /\ plan = None /\ mut = None

Init ==
    /\ manifest = None
    /\ disk = {}
    /\ lastUpsert = [ id \in SegmentIds |-> None ]
    /\ hit = None
    /\ plan = None
    /\ mut = None
    /\ savedManifest = None
    /\ storyFile = <<>>
    /\ configFile = ConfigCalm
    /\ run = [ pc |-> "unused" ]
    /\ tts = [ pc |-> "unused" ]
    /\ pool = [ pc |-> "unused" ]
    /\ stitch = [ pc |-> "unused" ]

\* loadCacheManifest found none: the run starts from createEmptyManifest
CreateEmptyManifest ==
    /\ NoCallRecorded
    /\ manifest = None
    /\ manifest' = Some(createEmptyManifest(hashText("story"), hashConfig(ConfigCalm)))
    /\ UNCHANGED <<disk, lastUpsert, hit, plan, mut, runVars, tts, pool, stitch>>

\* a segment's generation ends and its outcome is upserted; a successful
\* generation has written the audio file before it returns
UpdateCachedSegment ==
    /\ NoCallRecorded
    /\ manifest # None
    /\ \E segment \in Segments, config \in Configs :
         \E result \in ResultsFor(segment, config) :
            /\ \/ Len(manifest[1].segments) < MaxEntries
               \/ FindEntry(manifest[1].segments, segment.id) # None
            /\ manifest' = Some(updateCachedSegment(manifest[1], segment, config, result))
            /\ disk' = IF result.success THEN disk \cup {result.audioPath} ELSE disk
            /\ lastUpsert' = [ lastUpsert EXCEPT ![segment.id] =
                                 Some([ segment |-> segment, config |-> config,
                                        result |-> result ]) ]
            /\ mut' = Some([ op |-> "updateCachedSegment", before |-> manifest[1],
                             segment |-> segment,
                             passed |-> argumentAfterUpdate(manifest[1], segment,
                                                            config, result) ])
    /\ UNCHANGED <<hit, plan, runVars, tts, pool, stitch>>

RemoveCachedSegment ==
    /\ NoCallRecorded
    /\ manifest # None
    /\ \E segmentId \in SegmentIds :
         LET r == removeCachedSegment(disk, manifest[1], segmentId)
         IN  /\ manifest' = Some(r.manifest)
             /\ disk' = r.disk
             /\ lastUpsert' = [ lastUpsert EXCEPT ![segmentId] = None ]
             /\ mut' = Some([ op |-> "removeCachedSegment", before |-> manifest[1],
                              segmentId |-> segmentId,
                              passed |-> argumentAfterRemove(manifest[1], segmentId) ])
    /\ UNCHANGED <<hit, plan, runVars, tts, pool, stitch>>

CleanStaleCacheEntries ==
    /\ NoCallRecorded
    /\ manifest # None
    /\ \E story \in Stories :
         LET currentSegmentIds == { story[i].id : i \in DOMAIN story }
             r == cleanStaleCacheEntries(disk, manifest[1], currentSegmentIds)
         IN  /\ manifest' = Some(r.manifest)
             /\ disk' = r.disk
             /\ lastUpsert' = [ id \in SegmentIds |->
                                  IF id \in currentSegmentIds
                                  THEN lastUpsert[id] ELSE None ]
             /\ mut' = Some([ op |-> "cleanStaleCacheEntries", before |-> manifest[1],
                              currentSegmentIds |-> currentSegmentIds ])
    /\ UNCHANGED <<hit, plan, runVars, tts, pool, stitch>>

InvalidateSpeakerCache ==
    /\ NoCallRecorded
    /\ manifest # None
    /\ \E speakers \in SpeakerArgs :
         LET r == invalidateSpeakerCache(disk, manifest[1], speakers)
         IN  /\ manifest' = Some(r.manifest)
             /\ disk' = r.disk
             /\ lastUpsert' =
                  [ id \in SegmentIds |->
                      IF /\ lastUpsert[id] # None
                         /\ \E s \in speakers :
                              toUpperCase(s) = toUpperCase(lastUpsert[id][1].segment.speaker)
                      THEN None ELSE lastUpsert[id] ]
             /\ mut' = Some([ op |-> "invalidateSpeakerCache", before |-> manifest[1],
                              speakers |-> speakers ])
    /\ UNCHANGED <<hit, plan, runVars, tts, pool, stitch>>

\* one call of isSegmentCached on the current manifest (null before one exists)
IsSegmentCachedCall ==
    /\ NoCallRecorded
    /\ \E segment \in Segments, config \in Configs :
         hit' = Some([ manifest |-> manifest, segment |-> segment, config |-> config,
                       result |-> isSegmentCached(manifest, segment, config) ])
    /\ UNCHANGED <<manifest, disk, lastUpsert, plan, mut, runVars, tts, pool, stitch>>

\* the planner's two calls on the same manifest, segments and config
PlannerCall ==
    /\ NoCallRecorded
    /\ \E segments \in Stories, config \in Configs :
         plan' = Some([ manifest |-> manifest, segments |-> segments, config |-> config,
                        toGenerate |-> getSegmentsToGenerate(manifest, segments, config),
                        cached |-> getCachedSegments(manifest, segments, config) ])
    /\ UNCHANGED <<manifest, disk, lastUpsert, hit, mut, runVars, tts, pool, stitch>>

\* the caller is done with the recorded call
ForgetCall ==
    /\ ~NoCallRecorded
    /\ hit' = None
    /\ plan' = None
    /\ mut' = None
    /\ UNCHANGED <<manifest, disk, lastUpsert, runVars, tts, pool, stitch>>

Next ==
    \/ CreateEmptyManifest
    \/ UpdateCachedSegment
    \/ RemoveCachedSegment
    \/ CleanStaleCacheEntries
    \/ InvalidateSpeakerCache
    \/ IsSegmentCachedCall
    \/ PlannerCall
    \/ ForgetCall

Spec == Init /\ [][Next]_vars

(***************************************************************************)
(* Claims about the cache (checked under Spec)                             *)
(***************************************************************************)
\* the entries of a manifest value that make a segment a cache hit
ValidEntries(m, segment, config) ==
    IF m = None THEN {}
    ELSE { i \in DOMAIN m[1].segments :
             /\ m[1].segments[i].segmentId = segment.id
             /\ m[1].segments[i].success
             /\ m[1].segments[i].hash.combinedHash =
                  generateSegmentHash(segment, config).combinedHash }

\* C1: isSegmentCached returns an entry if and only if the manifest holds an
\* entry with the segment's id, success = true and a stored combinedHash equal
\* to the freshly computed one, and the entry returned is such an entry; with
\* no manifest, no entry, a failed entry or a stale hash it returns null.
C1_CacheHitIff ==
    hit # None =>
        LET h == hit[1]
            valid == ValidEntries(h.manifest, h.segment, h.config)
        IN  /\ (h.result # None) <=> (valid # {})
            /\ h.result # None =>
                 \E i \in valid : h.result[1] = h.manifest[1].segments[i]

\* a call that hit, on a manifest that also holds a failed or stale entry
C1_Witness ==
    /\ hit # None
    /\ hit[1].result # None
    /\ \E i \in DOMAIN hit[1].manifest[1].segments :
         LET e == hit[1].manifest[1].segments[i]
         IN  e.segmentId # hit[1].segment.id /\ ~e.success

\* how often an id occurs among the segments of a list
Occurrences(ids, id) == Cardinality({ i \in DOMAIN ids : ids[i] = id })

\* C2: the segments returned by getSegmentsToGenerate and those returned by
\* getCachedSegments are disjoint and together hold every input segment
\* exactly once.
C2_PlannerPartition ==
    plan # None =>
        LET p == plan[1]
            genIds == [ i \in DOMAIN p.toGenerate |-> p.toGenerate[i].id ]
            cachedIds == [ i \in DOMAIN p.cached |-> p.cached[i].segment.id ]
        IN  /\ \A i \in DOMAIN p.segments :
                 Occurrences(genIds, p.segments[i].id)
                   + Occurrences(cachedIds, p.segments[i].id) = 1
            /\ Len(p.toGenerate) + Len(p.cached) = Len(p.segments)
            /\ \A i \in DOMAIN p.toGenerate :
                 \E j \in DOMAIN p.segments : p.toGenerate[i] = p.segments[j]
            /\ \A i \in DOMAIN p.cached :
                 \E j \in DOMAIN p.segments : p.cached[i].segment = p.segments[j]

\* a planner call that split a story into a cached and a to-generate part
C2_Witness ==
    /\ plan # None
    /\ plan[1].toGenerate # <<>>
    /\ plan[1].cached # <<>>

\* C6: the manifest holds at most one entry per segmentId, and the entry of
\* an id carries the data of the most recent upsert of that id (every id
\* upserted and not removed since has its entry).
C6_OneEntryLatestUpsert ==
    manifest # None =>
        LET segs == manifest[1].segments
        IN  /\ \A i, j \in DOMAIN segs :
                 i # j => segs[i].segmentId # segs[j].segmentId
            /\ \A i \in DOMAIN segs :
                 LET u == lastUpsert[segs[i].segmentId]
                 IN  /\ u # None
                     /\ segs[i].index = u[1].segment.index
                     /\ segs[i].speaker = u[1].segment.speaker
                     /\ segs[i].hash = generateSegmentHash(u[1].segment, u[1].config)
                     /\ segs[i].provider = u[1].config.provider
                     /\ segs[i].audioPath = u[1].result.audioPath
                     /\ segs[i].durationMs = u[1].result.durationMs
                     /\ segs[i].fileSize = u[1].result.fileSize
                     /\ segs[i].success = u[1].result.success
                     /\ segs[i].error = u[1].result.error
            /\ \A id \in SegmentIds :
                 lastUpsert[id] # None =>
                     \E i \in DOMAIN segs : segs[i].segmentId = id

\* an upsert has just replaced the entry of its id by different data
C6_Witness ==
    /\ mut # None
    /\ mut[1].op = "updateCachedSegment"
    /\ LET old == FindEntry(mut[1].before.segments, mut[1].segment.id)
           new == FindEntry(manifest[1].segments, mut[1].segment.id)
       IN  old # None /\ new # None /\ old # new

\* C7: after every mutation the manifest's segments are in non-decreasing
\* index order.
C7_SortedByIndex ==
    manifest # None =>
        \A i \in 1..(Len(manifest[1].segments) - 1) :
            manifest[1].segments[i].index <= manifest[1].segments[i + 1].index

\* an upsert has just put an entry in front of one with a larger index
C7_Witness ==
    /\ mut # None
    /\ mut[1].op = "updateCachedSegment"
    /\ \E i \in DOMAIN mut[1].before.segments :
         mut[1].before.segments[i].index > mut[1].segment.index
    /\ manifest[1].segments[1].segmentId = mut[1].segment.id

(***************************************************************************)
(* cli.ts: generateAudiobook, one step per awaited segment                 *)
(***************************************************************************)
\* the stories the file can hold: a line at every position from the first
StoryFiles ==
    UNION { { f \in [1..n -> UNION { LinesAt(i) : i \in Indexes }] :
                \A k \in 1..n : f[k] \in LinesAt(k - 1) } : n \in 1..(MaxIndex + 1) }

\* the configurations the file is edited between
RunConfigs == { ConfigCalm, ConfigDramatic }

\* parseFile: one segment per line, its index the line's position
parseFile(lines) == [ k \in 1..Len(lines) |-> Segment(k - 1, lines[k]) ]

\* JSON.stringify(manifest, null, 2): the text of manifest.json, complete
JSONstringify(m) == [ json |-> m, eof |-> TRUE ]

\* JSON.parse: the value of a complete text; None stands for the
\* SyntaxError thrown on a text that is cut off
JSONparse(content) == IF content.eof THEN Some(content.json) ELSE None

loadCacheManifest_NoVersionCheck(saved) ==
    IF saved = None THEN None
    ELSE JSONparse(saved[1])

\* loadCacheManifest: null when the file is missing, when reading or
\* parsing it throws (the catch), and when it is of another version
loadCacheManifest(saved) ==
    IF saved = None THEN None
    ELSE LET parsed == JSONparse(saved[1])
         IN  IF parsed = None THEN None
             ELSE IF parsed[1].version # CACHE_VERSION THEN None
             ELSE parsed

\* verifyCachedSegment: is the file named like the entry's audioPath in the
\* cache's segments directory
verifyCachedSegment(d, cached) ==
    join(<<getCacheDir(None), "segments">>, basename(cached.audioPath)) \in d

\* the manifest is written to disk after every SaveEvery-th segment
SaveEvery == 10

saveDue_Never(i) == FALSE

\* (i + 1) % 10 === 0, for the number i of passes made
saveDue(i) == i % SaveEvery = 0

RECURSIVE InsertResult(_, _)
InsertResult(sorted, r) ==
    IF sorted = <<>> THEN <<r>>
    ELSE IF Head(sorted).segment.index <= r.segment.index
         THEN <<Head(sorted)>> \o InsertResult(Tail(sorted), r)
         ELSE <<r>> \o sorted

RECURSIVE sortResults(_)
\* segmentResults.sort((a, b) => a.segment.index - b.segment.index)
sortResults(rs) ==
    IF rs = <<>> THEN <<>>
    ELSE InsertResult(sortResults(SubSeq(rs, 1, Len(rs) - 1)), rs[Len(rs)])

\* the manifest generateAudiobook goes on with: the loaded one, or an empty
\* one when forced, when none was loaded or when a stored hash differs
manifestForRun(force, loaded, storyHash, configHash) ==
    IF \/ force
       \/ loaded = None
       \/ loaded[1].storyHash # storyHash
       \/ loaded[1].configHash # configHash
    THEN createEmptyManifest(storyHash, configHash)
    ELSE loaded[1]

IdleRun == [ pc |-> "idle" ]

\* no process is running
BetweenRuns == run.pc = "idle"

\* generateAudiobook has returned, thrown or exited
RunEnded == run.pc \in {"done", "exited", "failed"}

\* where the run goes once the generation loop is over
AfterGeneration(cached) == IF cached # <<>> THEN "verifying" ELSE "finishing"

afterSegment_ThrowAborts(outcome, i, n, cached) ==
    IF outcome = "throws" THEN "failed"
    ELSE IF i = n THEN AfterGeneration(cached)
    ELSE "generating"

\* where the run is after pass i of n of the generation loop: the try/catch
\* keeps every outcome of generateSegmentAudio inside the loop
afterSegment(outcome, i, n, cached) ==
    IF i = n THEN AfterGeneration(cached) ELSE "generating"

reportSuccess_WithWarnings(failedCount) == TRUE

\* `success: failedCount === 0` of the result generateAudiobook returns
reportSuccess(failedCount) == failedCount = 0

InitRun ==
    /\ manifest = None
    /\ disk = {}
    /\ lastUpsert = [ id \in SegmentIds |-> None ]
    /\ hit = None
    /\ plan = None
    /\ mut = None
    /\ savedManifest = None
    /\ storyFile \in StoryFiles
    /\ configFile = ConfigCalm
    /\ run = IdleRun
    /\ tts = [ pc |-> "unused" ]
    /\ pool = [ pc |-> "unused" ]
    /\ stitch = [ pc |-> "unused" ]

\* generateAudiobook up to the generation loop: parse, load the manifest,
\* plan, initialise the provider
StartRun ==
    /\ BetweenRuns
    /\ \E force \in BOOLEAN, dryRun \in BOOLEAN, providerOk \in BOOLEAN :
         LET segmentsToProcess == parseFile(storyFile)
             storyHash == hashText(storyFile)
             configHash == hashConfig(configFile)
             loaded == loadCacheManifest(savedManifest)
             m == manifestForRun(force, loaded, storyHash, configHash)
             segmentsToGenerate ==
                 IF force THEN segmentsToProcess
                 ELSE getSegmentsToGenerate(Some(m), segmentsToProcess, configFile)
             cachedSegmentsInfo ==
                 IF force THEN <<>>
                 ELSE getCachedSegments(Some(m), segmentsToProcess, configFile)
         IN  /\ manifest' = Some(m)
             /\ run' = [ pc |-> IF dryRun THEN "done"
                                ELSE IF ~providerOk THEN "failed"
                                ELSE IF segmentsToGenerate # <<>> THEN "generating"
                                ELSE AfterGeneration(cachedSegmentsInfo),
                         force |-> force,
                         dryRun |-> dryRun,
                         config |-> configFile,
                         loaded |-> loaded,
                         segmentsToProcess |-> segmentsToProcess,
                         segmentsToGenerate |-> segmentsToGenerate,
                         cachedSegmentsInfo |-> cachedSegmentsInfo,
                         i |-> 0,
                         j |-> 0,
                         segmentResults |-> <<>>,
                         errors |-> <<>>,
                         missing |-> {},
                         output |-> None,
                         success |-> dryRun ]
    /\ UNCHANGED <<disk, cacheCallVars, tts, pool, stitch, savedManifest, storyFile, configFile>>

\* one pass of the generation loop up to its last await:
\* generateSegmentAudio for segment i and the upsert of a success; the
\* periodic save, when it is due, is awaited next
generationLoopBody ==
    /\ run.pc = "generating"
    /\ \E outcome \in {"success", "failure", "throws"} :
         LET segment == run.segmentsToGenerate[run.i + 1]
             outputPath == getCachedSegmentPath(segment.id, run.config.format, None)
             updated ==
                 IF outcome = "success"
                 THEN updateCachedSegment(manifest[1], segment, run.config,
                          [ audioPath |-> outputPath, durationMs |-> 1200,
                            fileSize |-> 57644, success |-> TRUE, error |-> None ])
                 ELSE manifest[1]
             result ==
                 IF outcome = "success"
                 THEN [ segment |-> segment, success |-> TRUE,
                        audioPath |-> outputPath, durationMs |-> 1200,
                        fromCache |-> FALSE, error |-> None ]
                 ELSE [ segment |-> segment, success |-> FALSE,
                        audioPath |-> <<>>, durationMs |-> 0,
                        fromCache |-> FALSE, error |-> Some(outcome) ]
         IN  /\ manifest' = Some(updated)
             /\ disk' = IF outcome = "success" THEN disk \cup {outputPath} ELSE disk
             /\ UNCHANGED savedManifest
             /\ run' = [ run EXCEPT
                           !.i = run.i + 1,
                           !.segmentResults = Append(run.segmentResults, result),
                           !.errors = IF outcome = "success" THEN run.errors
                                      ELSE Append(run.errors, <<segment.id, outcome>>),
                           !.pc =
                             LET next == afterSegment(outcome, run.i + 1,
                                             Len(run.segmentsToGenerate),
                                             run.cachedSegmentsInfo)
                             IN  IF next # "failed" /\ saveDue(run.i + 1)
                                 THEN "saving" ELSE next ]
    /\ UNCHANGED <<hit, plan, mut, tts, pool, stitch, storyFile, configFile>>

GenerateSegment ==
    /\ generationLoopBody
    /\ UNCHANGED lastUpsert

\* the awaited periodic saveCacheManifest of the generation loop
SaveManifestPeriodically ==
    /\ run.pc = "saving"
    /\ savedManifest' = Some(JSONstringify(manifest[1]))
    /\ run' = [ run EXCEPT
                  !.pc = IF run.i = Len(run.segmentsToGenerate)
                         THEN AfterGeneration(run.cachedSegmentsInfo)
                         ELSE "generating" ]
    /\ UNCHANGED <<manifest, disk, cacheCallVars, tts, pool, stitch, storyFile, configFile>>

\* one pass of the loop over the cached segments: the file check, and the
\* result pushed when the file exists, the warning printed when it does not
VerifyCachedSegment ==
    /\ run.pc = "verifying"
    /\ LET c == run.cachedSegmentsInfo[run.j + 1]
           exists == verifyCachedSegment(disk, c.cached)
       IN  run' = [ run EXCEPT
                      !.j = run.j + 1,
                      !.segmentResults =
                          IF exists
                          THEN Append(run.segmentResults,
                                 [ segment |-> c.segment, success |-> TRUE,
                                   audioPath |-> c.cached.audioPath,
                                   durationMs |-> c.cached.durationMs,
                                   fromCache |-> TRUE, error |-> None ])
                          ELSE run.segmentResults,
                      !.missing = IF exists THEN run.missing
                                  ELSE run.missing \cup {c.segment.id},
                      !.pc = IF run.j + 1 = Len(run.cachedSegmentsInfo)
                             THEN "finishing" ELSE "verifying" ]
    /\ UNCHANGED <<manifest, disk, cacheCallVars, tts, pool, stitch, savedManifest, storyFile, configFile>>

\* the end of the run: the final save, then the stitching of the successful
\* results in index order; the process exits when there is none, and
\* stitchAudioFiles throws when a file it is given is missing
FinishRun ==
    /\ run.pc = "finishing"
    /\ LET sorted == sortResults(run.segmentResults)
           successfulResults == SelectSeq(sorted, LAMBDA r : r.success)
           failedCount == Len(sorted) - Len(successfulResults)
           allThere == \A k \in DOMAIN successfulResults :
                          successfulResults[k].audioPath \in disk
       IN  /\ savedManifest' = Some(JSONstringify(manifest[1]))
           /\ run' = [ run EXCEPT
                         !.segmentResults = sorted,
                         !.pc = IF successfulResults = <<>> THEN "exited"
                                ELSE IF ~allThere THEN "failed"
                                ELSE "done",
                         !.output =
                             IF successfulResults # <<>> /\ allThere
                             THEN Some([ k \in DOMAIN successfulResults |->
                                           successfulResults[k].segment.id ])
                             ELSE None,
                         !.success = /\ successfulResults # <<>>
                                     /\ allThere
                                     /\ reportSuccess(failedCount) ]
    /\ UNCHANGED <<manifest, disk, cacheCallVars, tts, pool, stitch, storyFile, configFile>>

\* the process ends, and its memory with it
ExitProcess ==
    /\ RunEnded
    /\ run' = IdleRun
    /\ manifest' = None
    /\ UNCHANGED <<disk, cacheCallVars, tts, pool, stitch, savedManifest, storyFile, configFile>>

\* the story file is edited between two runs, or the next run is given
\* another story file and the same output directory
EditStory ==
    /\ BetweenRuns
    /\ \E lines \in StoryFiles \ {storyFile} : storyFile' = lines
    /\ UNCHANGED <<manifest, disk, cacheCallVars, tts, pool, stitch, savedManifest, configFile, run>>

\* the configuration is edited between two runs
EditConfig ==
    /\ BetweenRuns
    /\ \E c \in RunConfigs \ {configFile} : configFile' = c
    /\ UNCHANGED <<manifest, disk, cacheCallVars, tts, pool, stitch, savedManifest, storyFile, run>>

\* an audio file is deleted behind the cache's back, between two runs
DeleteAudioFile ==
    /\ BetweenRuns
    /\ \E path \in disk : disk' = disk \ {path}
    /\ UNCHANGED <<manifest, cacheCallVars, tts, pool, stitch, runVars>>

NextRun ==
    \/ StartRun
    \/ GenerateSegment
    \/ VerifyCachedSegment
    \/ FinishRun
    \/ ExitProcess
    \/ EditStory
    \/ EditConfig
    \/ DeleteAudioFile

SpecRun == InitRun /\ [][NextRun]_vars

(***************************************************************************)
(* Claims about the generate run (checked under SpecRun)                   *)
(***************************************************************************)
\* the ids of the elements of a sequence of segments
IdsOf(segments) == { segments[k].id : k \in DOMAIN segments }

\* C3: when a run loads a manifest whose stored storyHash or configHash
\* differs from the current story's or config's, every segment whose entry
\* has success = true and a stored combinedHash equal to its fresh
\* fingerprint is served from cache and is not regenerated.
C3_HashDriftKeepsValidEntries ==
    ( /\ run.pc # "idle"
      /\ ~run.force
      /\ run.loaded # None
      /\ \/ run.loaded[1].storyHash # hashText(storyFile)
         \/ run.loaded[1].configHash # hashConfig(run.config) )
    => \A k \in DOMAIN run.segmentsToProcess :
         LET segment == run.segmentsToProcess[k]
         IN  ValidEntries(run.loaded, segment, run.config) # {} =>
                 /\ segment.id \notin IdsOf(run.segmentsToGenerate)
                 /\ \E c \in DOMAIN run.cachedSegmentsInfo :
                      run.cachedSegmentsInfo[c].segment = segment

\* C4: once the generation of a segment has failed in a run, the cache
\* manifest holds an entry for that segment with success = false and an
\* error string.
C4_FailureRecordedInManifest ==
    run.pc # "idle" =>
        \A k \in DOMAIN run.segmentResults :
            ~run.segmentResults[k].success =>
                \E e \in DOMAIN manifest[1].segments :
                    /\ manifest[1].segments[e].segmentId = run.segmentResults[k].segment.id
                    /\ ~manifest[1].segments[e].success
                    /\ manifest[1].segments[e].error # None

\* C5: a segment with a valid cache entry whose audio file is missing is
\* regenerated by the run, and the assembled audiobook includes it.
C5_MissingFileRegenerated ==
    run.pc = "done" /\ ~run.dryRun =>
        \A id \in run.missing :
            /\ \E k \in DOMAIN run.segmentResults :
                 /\ run.segmentResults[k].segment.id = id
                 /\ ~run.segmentResults[k].fromCache
            /\ \E k \in DOMAIN run.output[1] : run.output[1][k] = id

(***************************************************************************)
(* The Gemini TTS provider (tts-provider.ts): withRetry and                *)
(* GeminiTTSProvider.generateAudio.  An error message is the sequence of   *)
(* its words, so that String.includes is a real search for a contiguous    *)
(* run of words and toLowerCase a real conversion.                         *)
(***************************************************************************)

\* the seed loop runs seedAttempt = 0 .. maxSeedRetries
maxSeedRetries == 3

\* `this.config.maxRetries ?? 3`
DefaultMaxRetries == 3

baseDelayMs == 1000
maxDelayMs == 30000

\* Math.random() * 1000 lies in [0, 1000): its two extremes, in whole ms
JitterMs == {0, 999}

Min(a, b) == IF a <= b THEN a ELSE b

toLowerCaseWord(w) ==
    CASE w = "Generation" -> "generation"
      [] w = "Content"    -> "content"
      [] w = "Request"    -> "request"
      [] w = "OTHER"      -> "other"
      [] w = "SAFETY"     -> "safety"
      [] w = "MAX_TOKENS" -> "max_tokens"
      [] OTHER            -> w

toLowerCase(message) ==
    [ k \in DOMAIN message |-> toLowerCaseWord(message[k]) ]

\* String.prototype.includes
includes(message, needle) ==
    \E k \in 0..(Len(message) - Len(needle)) :
        \A j \in 1..Len(needle) : message[k + j] = needle[j]

\* the PCM format of the mime type "audio/L16;rate=24000", and of the
\* default mime type
parseMimeType ==
    [ numChannels |-> 1, sampleRate |-> 24000, bitsPerSample |-> 16 ]

\* convertToWav: a 44-byte header in front of the decoded PCM bytes
convertToWav(bytes) ==
    [ numChannels |-> parseMimeType.numChannels,
      sampleRate |-> parseMimeType.sampleRate,
      bitsPerSample |-> parseMimeType.bitsPerSample,
      dataSize |-> bytes,
      length |-> 44 + bytes ]

\* Math.round of the non-negative quotient num / den
RoundDiv(num, den) == (2 * num + den) \div (2 * den)

\* estimateWavDuration: the milliseconds the header's fields stand for
estimateWavDuration(wav) ==
    IF wav.length < 44 THEN 0
    ELSE LET bytesPerSample == wav.bitsPerSample \div 8  \* whole for 16 bit
         IN  RoundDiv(wav.dataSize * 1000,
                      wav.numChannels * bytesPerSample * wav.sampleRate)

\* the PCM bytes of 1.2 s and of 6 s of audio at 24 kHz, 16 bit, mono
AudioBytes == [ short |-> 57600, long |-> 288000 ]

\* what one models.generateContent call can come back with: a response
\* (promptFeedback.blockReason, candidates[0].finishReason, whether inline
\* audio data is present, and how many PCM bytes) or a thrown error
Reply(blockReason, finishReason, data) ==
    [ threw |-> None, blockReason |-> blockReason,
      finishReason |-> finishReason, data |-> data,
      bytes |-> IF data THEN AudioBytes.short ELSE 0 ]

Threw(message) ==
    [ threw |-> Some(message), blockReason |-> None,
      finishReason |-> None, data |-> FALSE, bytes |-> 0 ]

ApiReplies ==
    { Reply(None, Some("STOP"), TRUE),
      Reply(None, None, TRUE),
      [ Reply(None, Some("STOP"), TRUE) EXCEPT !.bytes = AudioBytes.long ],
      Reply(None, Some("STOP"), FALSE),
      Reply(None, Some("OTHER"), TRUE),
      Reply(None, Some("SAFETY"), FALSE),
      Reply(None, Some("MAX_TOKENS"), TRUE),
      Reply(Some("SAFETY"), None, FALSE),
      Reply(Some("OTHER"), Some("OTHER"), FALSE),
      Threw(<<"Request", "timeout">>),
      Threw(<<"fetch", "failed">>) }

\* the function generateAudio hands to withRetry, applied to the reply of
\* its generateContent call: the error it throws, or whether it returns
\* audio (null when the response holds no inline data)
callGenerateContent(reply) ==
    IF reply.threw # None
    THEN [ error |-> reply.threw, audio |-> None ]
    ELSE IF reply.blockReason # None
    THEN [ error |-> Some(<<"Content", "blocked:", reply.blockReason[1]>>),
           audio |-> None ]
    ELSE IF reply.finishReason # None /\ reply.finishReason[1] # "STOP"
    THEN [ error |-> Some(<<"Generation", "incomplete:", reply.finishReason[1]>>),
           audio |-> None ]
    ELSE [ error |-> None,
           audio |-> IF reply.data THEN Some(convertToWav(reply.bytes))
                     ELSE None ]

isRetryable_AnyIncomplete(message) ==
    LET errorMessage == toLowerCase(message)
    IN  \/ includes(errorMessage, <<"rate", "limit">>)
        \/ includes(errorMessage, <<"timeout">>)
        \/ includes(errorMessage, <<"503">>)
        \/ includes(errorMessage, <<"429">>)
        \/ includes(errorMessage, <<"500">>)
        \/ includes(errorMessage, <<"generation", "incomplete:">>)

\* withRetry: the errors it retries with backoff
isRetryable(message) ==
    LET errorMessage == toLowerCase(message)
    IN  \/ includes(errorMessage, <<"rate", "limit">>)
        \/ includes(errorMessage, <<"timeout">>)
        \/ includes(errorMessage, <<"503">>)
        \/ includes(errorMessage, <<"429">>)
        \/ includes(errorMessage, <<"500">>)

isLastAttempt_OneMore(attempt, maxRetries) == attempt = maxRetries + 1

\* withRetry: `attempt === options.maxRetries`, after which the error is
\* thrown on
isLastAttempt(attempt, maxRetries) == attempt = maxRetries

\* withRetry: the delay before the retry that follows attempt `attempt`
backoffDelay(attempt, jitter) ==
    Min(baseDelayMs * (2 ^ attempt) + jitter, maxDelayMs)

isSeedRetryable_AnyIncomplete(errorMessage) ==
    includes(errorMessage, <<"Generation", "incomplete:">>)

\* generateAudio's catch: the errors it answers with another seed
isSeedRetryable(errorMessage) ==
    includes(errorMessage, <<"Generation", "incomplete:", "OTHER">>)

nextSeed_IgnoreAttempt(baseSeed, seedAttempt) ==
    baseSeed + 1

\* generateAudio's catch: the seed of the attempt after `seedAttempt`
nextSeed(baseSeed, seedAttempt) ==
    baseSeed + seedAttempt + 1

\* the seeds and retry budgets a request is made with
VoiceSeeds == {None, Some(100)}
GlobalSeeds == {None, Some(12345)}
MaxRetriesOptions == {None, Some(0), Some(1)}

\* request.text, piece by piece: a line that is only a bracketed style
\* directive, and a spoken line
Texts == { << "<conflicted, breathless>" >>, << "Hello", "there" >> }

\* RateLimiter: `windowMs = 60000`, and `config.rateLimit || 60`
windowMs == 60000
DefaultRateLimit == 60

\* RateLimiter.waitForSlot up to its await or its return: the requests of
\* the last windowMs are kept; when they fill the limit the caller waits
\* until the oldest one leaves the window, 100 ms more, and asks again,
\* else the request is entered at `now`
waitForSlot(requests, now, maxRequests) ==
    LET kept == SelectSeq(requests, LAMBDA t : now - t < windowMs)
    IN  IF Len(kept) >= maxRequests
        THEN [ requests |-> kept,
               waitTime |-> Some(windowMs - (now - kept[1]) + 100) ]
        ELSE [ requests |-> Append(kept, now), waitTime |-> None ]

IdleTTS ==
    [ pc |-> "idle", client |-> FALSE, maxRetries |-> 0, baseSeed |-> 0,
      currentSeed |-> 0, seedAttempt |-> 0, attempt |-> 0,
      calls |-> <<>>, replies |-> <<>>, delay |-> 0, wrote |-> FALSE,
      now |-> 0, rateLimit |-> DefaultRateLimit, requests |-> <<>>,
      wakeAt |-> 0, callTimes |-> <<>>, served |-> 0,
      text |-> <<>>, audio |-> None, result |-> None ]

Failure(error) == Some([ success |-> FALSE, error |-> error ])

\* generateAudio's catch block, entered with the message of the error that
\* left withRetry or the file writes
catchError(t, errorMessage) ==
    IF isSeedRetryable(errorMessage) /\ t.seedAttempt < maxSeedRetries
    THEN IF t.seedAttempt + 1 <= maxSeedRetries
         THEN [ t EXCEPT !.currentSeed = nextSeed(t.baseSeed, t.seedAttempt),
                         !.seedAttempt = @ + 1,
                         !.attempt = 0,
                         !.pc = "calling" ]
         ELSE [ t EXCEPT !.currentSeed = nextSeed(t.baseSeed, t.seedAttempt),
                         !.seedAttempt = @ + 1,
                         !.pc = "returned",
                         !.result = Failure(<<"Gemini", "TTS", "generation",
                                              "failed", "after", "seed",
                                              "attempts">>) ]
    ELSE [ t EXCEPT !.pc = "returned",
                    !.result = Failure(<<"Gemini", "TTS", "generation",
                                         "failed:">> \o errorMessage) ]

InitTTS ==
    /\ manifest = None
    /\ disk = {}
    /\ lastUpsert = [ id \in SegmentIds |-> None ]
    /\ hit = None
    /\ plan = None
    /\ mut = None
    /\ savedManifest = None
    /\ storyFile = <<>>
    /\ configFile = ConfigCalm
    /\ run = [ pc |-> "unused" ]
    /\ tts = IdleTTS
    /\ pool = [ pc |-> "unused" ]
    /\ stitch = [ pc |-> "unused" ]

ttsUnchanged == <<manifest, disk, cacheCallVars, runVars, pool, stitch>>

\* generateAudio up to its first generateContent call, or up to the wait
\* for a slot of the rate limiter: initialize() when there is no client
\* yet, waitForSlot, the base seed (tts.now is the time on the clock and
\* tts.callTimes the times of the generateContent calls made so far)
GenerateAudio ==
    /\ tts.pc = "idle"
    /\ \E voiceSeed \in VoiceSeeds, globalSeed \in GlobalSeeds,
          maxRetries \in MaxRetriesOptions, text \in Texts,
          hasClient \in BOOLEAN, apiKey \in BOOLEAN :
          LET baseSeed == Coalesce(voiceSeed, Coalesce(globalSeed, Some(0)))[1]
              slot == waitForSlot(tts.requests, tts.now, tts.rateLimit)
          IN  IF ~hasClient /\ ~apiKey
              THEN tts' = [ tts EXCEPT !.pc = "threw" ]
              ELSE tts' = [ tts EXCEPT
                              !.pc = IF slot.waitTime = None THEN "calling"
                                     ELSE "awaitingSlot",
                              !.requests = slot.requests,
                              !.wakeAt = IF slot.waitTime = None THEN @
                                         ELSE tts.now + slot.waitTime[1],
                              !.client = TRUE,
                              !.text = text,
                              !.maxRetries = Coalesce(maxRetries,
                                                 Some(DefaultMaxRetries))[1],
                              !.baseSeed = baseSeed,
                              !.currentSeed = baseSeed ]
    /\ UNCHANGED ttsUnchanged

\* one generateContent call and everything generateAudio does with its
\* reply up to the next suspension: backoff, the next seed, the file write
\* or the return
GenerateContent ==
    /\ tts.pc = "calling"
    /\ \E reply \in ApiReplies, jitter \in JitterMs :
          LET out == callGenerateContent(reply)
              t == [ tts EXCEPT !.calls = Append(@, tts.currentSeed),
                                !.callTimes = Append(@, tts.now),
                                !.replies = Append(@, reply) ]
          IN  IF out.error = None
              THEN IF out.audio # None
                   THEN tts' = [ t EXCEPT !.pc = "writing",
                                          !.audio = out.audio ]
                   ELSE tts' = [ t EXCEPT
                                   !.pc = "returned",
                                   !.result = Failure(<<"No", "audio", "data",
                                       "received", "from", "Gemini", "API">>) ]
              ELSE IF isRetryable(out.error[1])
                      /\ ~isLastAttempt(t.attempt, t.maxRetries)
                   THEN tts' = [ t EXCEPT
                                   !.pc = "backoff",
                                   !.delay = backoffDelay(t.attempt, jitter) ]
                   ELSE tts' = catchError(t, out.error[1])
    /\ UNCHANGED ttsUnchanged

\* withRetry's setTimeout elapses: the next attempt with the same seed
BackoffElapsed ==
    /\ tts.pc = "backoff"
    /\ tts' = [ tts EXCEPT !.pc = "calling", !.attempt = @ + 1 ]
    /\ UNCHANGED ttsUnchanged

\* mkdir, writeFile and stat of the output file: success returns the
\* result, an error of the file system lands in the same catch block
WriteAudioFile ==
    /\ tts.pc = "writing"
    /\ \E ok \in BOOLEAN :
          IF ok
          THEN tts' = [ tts EXCEPT !.pc = "returned",
                                   !.wrote = TRUE,
                                   !.result = Some(
                                     [ success |-> TRUE,
                                       error |-> <<>>,
                                       durationMs |->
                                         estimateWavDuration(tts.audio[1]),
                                       fileSize |-> tts.audio[1].length ]) ]
          ELSE tts' = catchError(tts, <<"ENOSPC:", "no", "space", "left">>)
    /\ UNCHANGED ttsUnchanged

NextTTS ==
    \/ GenerateAudio
    \/ GenerateContent
    \/ BackoffElapsed
    \/ WriteAudioFile

SpecTTS == InitTTS /\ [][NextTTS]_vars

(***************************************************************************)
(* Properties of the provider.                                             *)
(***************************************************************************)

\* the API reported finish reason OTHER (and blocked nothing)
FinishedOther(reply) ==
    /\ reply.threw = None
    /\ reply.blockReason = None
    /\ reply.finishReason = Some("OTHER")

\* the API returned audio with finish reason STOP
Succeeded(reply) ==
    /\ reply.threw = None
    /\ reply.blockReason = None
    /\ reply.finishReason = Some("STOP")
    /\ reply.data

\* the API blocked the content, or finished with a reason that is neither
\* STOP nor OTHER
BlockedOrIncomplete(reply) ==
    /\ reply.threw = None
    /\ \/ reply.blockReason # None
       \/ /\ reply.finishReason # None
          /\ reply.finishReason[1] \notin {"STOP", "OTHER"}

SeedsFrom(n, count) == [ k \in 1..count |-> n + k - 1 ]

\* C8: while every API call of a request with base seed N reports finish
\* reason OTHER, the request's calls use the seeds N, N+1, N+2, N+3 in
\* order and never number more than 4; it returns only after the 4th call,
\* right after it, and what it returns is a failure.
C8_OtherEveryCallFourSeeds ==
    (\A k \in DOMAIN tts.replies : FinishedOther(tts.replies[k])) =>
        /\ Len(tts.calls) <= maxSeedRetries + 1
        /\ tts.calls = SeedsFrom(tts.baseSeed, Len(tts.calls))
        /\ (tts.pc = "returned") = (Len(tts.calls) = maxSeedRetries + 1)
        /\ tts.pc = "returned" => ~tts.result[1].success

C8_Witness ==
    /\ tts.pc = "returned"
    /\ Len(tts.replies) = 4
    /\ \A k \in DOMAIN tts.replies : FinishedOther(tts.replies[k])
    /\ tts.baseSeed = 100
    /\ tts.calls = <<100, 101, 102, 103>>
    /\ ~tts.result[1].success

\* C9: when the API reports OTHER on the first two calls of a request with
\* base seed N and succeeds on the third, the request has returned after
\* exactly 3 calls, made with the seeds N, N+1, N+2 in order, and, the
\* audio file once written, its result is a success.
C9_OtherTwiceThenSuccess ==
    ( /\ Len(tts.replies) >= 3
      /\ FinishedOther(tts.replies[1])
      /\ FinishedOther(tts.replies[2])
      /\ Succeeded(tts.replies[3]) ) =>
        /\ Len(tts.calls) = 3
        /\ tts.calls = <<tts.baseSeed, tts.baseSeed + 1, tts.baseSeed + 2>>
        /\ tts.pc \in {"writing", "returned"}
        /\ tts.wrote => tts.pc = "returned" /\ tts.result[1].success

C9_Witness ==
    /\ tts.pc = "returned"
    /\ Len(tts.replies) = 3
    /\ FinishedOther(tts.replies[1])
    /\ FinishedOther(tts.replies[2])
    /\ Succeeded(tts.replies[3])
    /\ tts.calls = <<12345, 12346, 12347>>
    /\ tts.result[1].success

\* C10: an API call that reports blocked content, or a finish reason other
\* than OTHER such as SAFETY or MAX_TOKENS, is the last call of its
\* request: the request has returned a failure, with no seed retry and no
\* further call; when it is the first call it is the only one.
C10_BlockedOrIncompleteNoRetry ==
    \A k \in DOMAIN tts.replies :
        BlockedOrIncomplete(tts.replies[k]) =>
            /\ k = Len(tts.replies)
            /\ Len(tts.calls) = k
            /\ tts.pc = "returned"
            /\ ~tts.result[1].success
            /\ tts.seedAttempt = Cardinality({ j \in 1..(k - 1) :
                                     FinishedOther(tts.replies[j]) })

C10_Witness ==
    /\ tts.pc = "returned"
    /\ Len(tts.calls) = 1
    /\ BlockedOrIncomplete(tts.replies[1])
    /\ tts.replies[1].finishReason = Some("MAX_TOKENS")
    /\ tts.seedAttempt = 0
    /\ ~tts.result[1].success

\* the call failed with a transient network or server condition
TransientFailure(reply) ==
    /\ reply.threw # None
    /\ \/ includes(reply.threw[1], <<"fetch", "failed">>)
       \/ includes(toLowerCase(reply.threw[1]), <<"timeout">>)
       \/ includes(reply.threw[1], <<"ECONNRESET">>)
       \/ includes(reply.threw[1], <<"500">>)

\* C11: a call that fails with a transient condition and is not the 4th of
\* its request is retried: the request goes on after a cooldown of 2000 ms,
\* and its next call uses the seed baseSeed + (number of calls made so
\* far); a request makes at most 4 calls.
C11_TransientSeedRetryWithCooldown ==
    /\ Len(tts.calls) <= maxSeedRetries + 1
    /\ \A k \in DOMAIN tts.replies :
          TransientFailure(tts.replies[k]) /\ k <= maxSeedRetries =>
              /\ k = Len(tts.replies) =>
                    /\ tts.pc \in {"backoff", "calling"}
                    /\ tts.delay = 2000
              /\ k < Len(tts.replies) => tts.calls[k + 1] = tts.baseSeed + k

\* the bracketed style directives of the texts
Directives == { "<conflicted, breathless>" }

\* nothing is left of the text once its bracketed directives are stripped
StyleOnly(text) == \A k \in DOMAIN text : text[k] \in Directives

\* the call returned audio longer than the strict limit of 5000 ms
LongerThanStrictLimit(reply) ==
    /\ reply.threw = None
    /\ reply.blockReason = None
    /\ reply.finishReason \in {None, Some("STOP")}
    /\ reply.data
    /\ estimateWavDuration(convertToWav(reply.bytes)) > 5000

\* C12: a call that returns more than 5000 ms of audio for a style-only
\* text, and is not the 4th of its request, does not end the request: the
\* request is retried, its next call using the next seed.
C12_ExcessiveDurationRetried ==
    \A k \in DOMAIN tts.replies :
        ( /\ StyleOnly(tts.text)
          /\ LongerThanStrictLimit(tts.replies[k])
          /\ k <= maxSeedRetries ) =>
            /\ k = Len(tts.replies) => tts.pc # "returned"
            /\ k < Len(tts.replies) => tts.calls[k + 1] = tts.baseSeed + k

(***************************************************************************)
(* utils.ts: processWithConcurrency.  The processor is an async function:  *)
(* an invocation starts when a worker calls it and settles, resolved or    *)
(* rejected, at some later turn of the event loop, in any order.           *)
(***************************************************************************)
MaxItems == 5    \* the item list holds at most this many items

\* `concurrency = 4` of the options destructuring
DefaultConcurrency == 4

ItemsOf(n) == [ k \in 1..n |-> <<"item", k>> ]

ConcurrencyOptions == {None, Some(0), Some(1), Some(2), Some(MaxItems + 1)}

\* onProgress: not given, a callback that records its call, one that throws
ProgressOptions == {"none", "records", "throws"}

workerCount_AllItems(concurrency, n) == n

\* new Array(Math.min(concurrency, items.length)): one worker per slot
workerCount(concurrency, n) == Min(concurrency, n)

resultIndex_CompletionOrder(currentIndex, completedCount) == completedCount

\* results[currentIndex] = ...: where a settled invocation's result goes
resultIndex(currentIndex, completedCount) == currentIndex

mayStartNext_IgnoreError(nextIndex, n, stopOnError, hasError) ==
    nextIndex < n

\* the condition of a worker's loop:
\* nextIndex < items.length && !(stopOnError && hasError)
mayStartNext(nextIndex, n, stopOnError, hasError) ==
    nextIndex < n /\ ~(stopOnError /\ hasError)

\* the ProcessResult of an invocation
ProcessResult(item, index, ok) ==
    [ item |-> item, index |-> index, success |-> ok,
      result |-> IF ok THEN Some(<<"processed", item>>) ELSE None,
      error |-> IF ok THEN None ELSE Some("processor failed") ]

Awaiting(index) == [ state |-> "awaiting", index |-> index ]

IdlePool ==
    [ pc |-> "idle", items |-> <<>>, given |-> None, concurrency |-> 0,
      stopOnError |-> FALSE, onProgress |-> "none", results |-> <<>>,
      completedCount |-> 0, hasError |-> FALSE, nextIndex |-> 0,
      workers |-> <<>>, invoked |-> <<>>, progress |-> <<>>,
      outcome |-> "pending" ]

InitPool ==
    /\ manifest = None
    /\ disk = {}
    /\ lastUpsert = [ id \in SegmentIds |-> None ]
    /\ hit = None
    /\ plan = None
    /\ mut = None
    /\ savedManifest = None
    /\ storyFile = <<>>
    /\ configFile = ConfigCalm
    /\ run = [ pc |-> "unused" ]
    /\ tts = [ pc |-> "unused" ]
    /\ pool = IdlePool
    /\ stitch = [ pc |-> "unused" ]

poolUnchanged == <<manifest, disk, cacheCallVars, runVars, tts, stitch>>

\* processWithConcurrency up to its await: the workers are created and each
\* runs to its first await, taking the next index and invoking the
\* processor on it
ProcessWithConcurrency ==
    /\ pool.pc = "idle"
    /\ \E n \in 0..MaxItems, given \in ConcurrencyOptions,
          stopOnError \in BOOLEAN, onProgress \in ProgressOptions :
          LET concurrency == Coalesce(given, Some(DefaultConcurrency))[1]
              w == workerCount(concurrency, n)
          IN  pool' = [ pool EXCEPT
                          !.pc = "running",
                          !.items = ItemsOf(n),
                          !.given = given,
                          !.concurrency = concurrency,
                          !.stopOnError = stopOnError,
                          !.onProgress = onProgress,
                          !.results = [ k \in 1..n |-> None ],
                          !.nextIndex = w,
                          !.workers = [ k \in 1..w |-> Awaiting(k - 1) ],
                          !.invoked = [ k \in 1..n |->
                                          IF k <= w THEN 1 ELSE 0 ] ]
    /\ UNCHANGED poolUnchanged

\* a processor invocation settles and its worker runs to its next await (or
\* to its end): the result is stored, completedCount counted, onProgress
\* called, and the next item, if one is left to start, invoked
ProcessorSettles ==
    /\ pool.pc = "running"
    /\ \E w \in DOMAIN pool.workers, ok \in BOOLEAN :
          /\ pool.workers[w].state = "awaiting"
          /\ LET currentIndex == pool.workers[w].index
                 slot == resultIndex(currentIndex, pool.completedCount) + 1
                 r == ProcessResult(pool.items[currentIndex + 1],
                                    currentIndex, ok)
                 hasError == pool.hasError \/ ~ok
                 p == [ pool EXCEPT
                          !.results[slot] = Some(r),
                          !.hasError = hasError,
                          !.completedCount = @ + 1 ]
             IN  IF pool.onProgress = "throws"
                 THEN pool' = [ p EXCEPT
                                  !.workers[w].state = "failed",
                                  !.outcome = IF @ = "pending"
                                              THEN "rejected" ELSE @ ]
                 ELSE LET q == IF pool.onProgress = "records"
                               THEN [ p EXCEPT !.progress =
                                        Append(@, <<p.completedCount,
                                                    currentIndex>>) ]
                               ELSE p
                      IN  IF mayStartNext(q.nextIndex, Len(q.items),
                                          q.stopOnError, q.hasError)
                          THEN pool' = [ q EXCEPT
                                  !.workers[w] = Awaiting(q.nextIndex),
                                  !.invoked[q.nextIndex + 1] = @ + 1,
                                  !.nextIndex = @ + 1 ]
                          ELSE pool' = [ q EXCEPT !.workers[w].state = "done" ]
    /\ UNCHANGED poolUnchanged

promiseAll_NeedsAPromise(workers) ==
    workers # <<>> /\ \A w \in DOMAIN workers : workers[w].state = "done"

\* Promise.all(semaphore.map(...)) is fulfilled: every worker has ended (at
\* once when there is no worker)
promiseAll(workers) ==
    \A w \in DOMAIN workers : workers[w].state = "done"

\* Promise.all resolves once every worker has ended: the results array is
\* returned
ReturnResults ==
    /\ pool.pc = "running"
    /\ pool.outcome = "pending"
    /\ promiseAll(pool.workers)
    /\ pool' = [ pool EXCEPT !.outcome = "returned" ]
    /\ UNCHANGED poolUnchanged

NextPool ==
    \/ ProcessWithConcurrency
    \/ ProcessorSettles
    \/ ReturnResults

SpecPool == InitPool /\ [][NextPool]_vars

(***************************************************************************)
(* Properties of processWithConcurrency.                                   *)
(***************************************************************************)
RECURSIVE SumSeq(_)
SumSeq(q) == IF q = <<>> THEN 0 ELSE Head(q) + SumSeq(Tail(q))

\* processor invocations started and not yet settled
InFlight == SumSeq(pool.invoked) - pool.completedCount

\* the concurrency limit of the call: the one given, 4 when none is given
LimitK == IF pool.given = None THEN 4 ELSE pool.given[1]

\* C13: with a concurrency K >= 1 (K = 4 when none is given), at every
\* moment of a processWithConcurrency run at most K processor invocations
\* are started and not yet settled.
C13_AtMostKInFlight ==
    pool.pc = "running" /\ LimitK >= 1 => InFlight <= LimitK

\* no concurrency given, five items: four invocations in flight and the
\* fifth item not started
C13_Witness ==
    /\ pool.pc = "running"
    /\ pool.given = None
    /\ Len(pool.items) = 5
    /\ InFlight = 4
    /\ pool.invoked[5] = 0
    /\ pool.completedCount = 0

\* C14: with stopOnError false and concurrency >= 1 (and a progress
\* callback, when one is given, that returns normally), no item's processor
\* is invoked twice and the call is never rejected; when it returns, every
\* item's processor has been invoked exactly once and the array has the
\* input's length with results[i].index = i and results[i].item = items[i],
\* whatever the completion order and whichever invocations threw.
C14_EachItemOnceResultsByIndex ==
    ( /\ pool.pc = "running"
      /\ ~pool.stopOnError
      /\ LimitK >= 1
      /\ pool.onProgress # "throws" ) =>
        /\ \A k \in DOMAIN pool.invoked : pool.invoked[k] <= 1
        /\ pool.outcome # "rejected"
        /\ pool.outcome = "returned" =>
              /\ Len(pool.results) = Len(pool.items)
              /\ \A k \in DOMAIN pool.items :
                    /\ pool.invoked[k] = 1
                    /\ pool.results[k] # None
                    /\ pool.results[k][1].index = k - 1
                    /\ pool.results[k][1].item = pool.items[k]

\* three items returned: the last one completed first, the first one threw
C14_Witness ==
    /\ pool.pc = "running"
    /\ pool.outcome = "returned"
    /\ ~pool.stopOnError
    /\ pool.onProgress = "records"
    /\ Len(pool.items) = 3
    /\ pool.progress = << <<1, 2>>, <<2, 0>>, <<3, 1>> >>
    /\ ~pool.results[1][1].success
    /\ pool.results[3][1].success
    /\ pool.results[3][1].index = 2

(***************************************************************************)
(* Properties of the run: completions, saves, failures.                    *)
(***************************************************************************)

\* the results of the segments the run generated itself
Generated(results) == SelectSeq(results, LAMBDA r : ~r.fromCache)

C17_FailureDoesNotAbort ==
    run.pc \notin {"idle", "unused"} /\ run.errors # <<>> =>
        /\ run.pc \notin {"generating", "saving"} =>
              /\ Len(Generated(run.segmentResults)) = Len(run.segmentsToGenerate)
              /\ \A k \in DOMAIN run.segmentsToGenerate :
                    \E j \in DOMAIN run.segmentResults :
                        /\ run.segmentResults[j].segment = run.segmentsToGenerate[k]
                        /\ ~run.segmentResults[j].fromCache
        /\ RunEnded => savedManifest = Some(JSONstringify(manifest[1]))

\* the first of two segments threw, the second was generated, and the run
\* ended after its final save
C17_Witness ==
    /\ run.pc = "done"
    /\ Len(run.segmentsToGenerate) = 2
    /\ run.errors = << <<run.segmentsToGenerate[1].id, "throws">> >>
    /\ \E j \in DOMAIN run.segmentResults :
          /\ run.segmentResults[j].segment = run.segmentsToGenerate[2]
          /\ run.segmentResults[j].success
    /\ savedManifest = Some(JSONstringify(manifest[1]))

(***************************************************************************)
(* The run on a story long enough for the periodic save: one story, one    *)
(* configuration, runs without --force or --dry-run, which a kill of the   *)
(* process can interrupt at any await.                                     *)
(***************************************************************************)
LongLen == 11       \* the lines of the long story
MaxFailures == 1    \* the segments that fail in one run of the long story

LongStory ==
    [ k \in 1..LongLen |->
        IF k % 2 = 0 THEN <<"ALICE", "Hello">> ELSE <<"NARRATOR", "The end">> ]

InitLongRun ==
    /\ manifest = None
    /\ disk = {}
    /\ lastUpsert = [ id \in SegmentIds |-> None ]
    /\ hit = None
    /\ plan = None
    /\ mut = None
    /\ savedManifest = None
    /\ storyFile = LongStory
    /\ configFile = ConfigCalm
    /\ run = IdleRun
    /\ tts = [ pc |-> "unused" ]
    /\ pool = [ pc |-> "unused" ]
    /\ stitch = [ pc |-> "unused" ]

\* the process is killed while generateAudiobook is suspended at an await:
\* its memory is lost, the files written so far stay
Interrupt ==
    /\ run.pc \in {"generating", "saving", "verifying", "finishing"}
    /\ run' = IdleRun
    /\ manifest' = None
    /\ UNCHANGED <<disk, cacheCallVars, tts, pool, stitch, savedManifest, storyFile, configFile>>

NextLongRun ==
    \/ StartRun /\ ~run'.force /\ ~run'.dryRun /\ run'.pc # "failed"
    \/ GenerateSegment /\ Len(run'.errors) <= MaxFailures
    \/ SaveManifestPeriodically
    \/ VerifyCachedSegment
    \/ FinishRun
    \/ ExitProcess
    \/ Interrupt

SpecLongRun == InitLongRun /\ [][NextLongRun]_vars

\* the manifest on disk holds a success entry for the segment
Persisted(id) ==
    /\ savedManifest # None
    /\ \E e \in DOMAIN savedManifest[1].json.segments :
          /\ savedManifest[1].json.segments[e].segmentId = id
          /\ savedManifest[1].json.segments[e].success

\* the segments the run has generated that the manifest on disk lacks
Unsaved ==
    { run.segmentResults[k].segment.id :
        k \in { j \in DOMAIN run.segmentResults :
                  /\ run.segmentResults[j].success
                  /\ ~run.segmentResults[j].fromCache
                  /\ ~Persisted(run.segmentResults[j].segment.id) } }

\* a run regenerates no segment that the manifest it loaded holds a success
\* entry for
RerunKeepsSaved ==
    \A k \in DOMAIN run.segmentsToGenerate :
        run.loaded = None \/
        \A e \in DOMAIN run.loaded[1].segments :
            run.loaded[1].segments[e].segmentId = run.segmentsToGenerate[k].id
                => ~run.loaded[1].segments[e].success

\* the saves of a run: outside the awaited periodic save, the segments not
\* yet persisted are fewer than the passes made since the last multiple of
\* 10; an ended run has persisted everything
SavedAtCadence ==
    /\ run.pc \in {"generating", "verifying", "finishing"} =>
          Cardinality(Unsaved) <= run.i % 10
    /\ RunEnded => Unsaved = {} /\ savedManifest = Some(JSONstringify(manifest[1]))

MaxFiles == 3    \* the files of one stitchAudioFiles call

\* `silencePaddingMs = 500`, `sampleRate = 24000`, `numChannels = 1`,
\* `bitsPerSample = 16` of the options destructuring
DefaultStitchOptions ==
    [ silencePaddingMs |-> 500, sampleRate |-> 24000,
      numChannels |-> 1, bitsPerSample |-> 16 ]

\* calculateDuration: milliseconds of dataSize bytes (a whole number for
\* the payloads of this world)
calculateDuration(dataSize, sampleRate, numChannels, bitsPerSample) ==
    LET bytesPerSample == bitsPerSample \div 8
    IN  (dataSize * 1000) \div (numChannels * bytesPerSample * sampleRate)

\* generateSilence: the length of the zero-filled buffer
generateSilence(durationMs, sampleRate, numChannels, bitsPerSample) ==
    LET bytesPerSample == bitsPerSample \div 8
        numSamples == (durationMs * sampleRate) \div 1000
    IN  numSamples * numChannels * bytesPerSample

\* the audio of the segment at an index lasts this long, in ms
DurationAt(index) == 1000 + 100 * index

\* the buffer of a file as generateAudio writes it: the 44-byte header
\* with its markers, 24 kHz, 16 bit, mono, and the data chunk
WavOf(index) ==
    [ length |-> 44 + DurationAt(index) * 48,
      riff |-> "RIFF", wave |-> "WAVE",
      numChannels |-> 1, sampleRate |-> 24000, bitsPerSample |-> 16,
      dataSize |-> DurationAt(index) * 48 ]

\* what the caller knows of a file and what is at its path: a file with a
\* duration supplied, one with durationMs 0, a path where no file is, a
\* file cut off inside its header, and files of another container
FileKinds == {"timed", "untimed", "missing", "short", "notRiff", "notWave"}

\* what readFile returns for a file of a kind
BufferOf(index, kind) ==
    CASE kind = "short" ->
             [ WavOf(index) EXCEPT !.length = 20, !.dataSize = 0 ]
      [] kind = "notRiff" -> [ WavOf(index) EXCEPT !.riff = "OggS" ]
      [] kind = "notWave" -> [ WavOf(index) EXCEPT !.wave = "AVI " ]
      [] OTHER -> WavOf(index)

\* an AudioFileInfo, together with what the file system holds at its path
AudioFileInfo(index, kind) ==
    [ path |-> join("segments", <<"seg", index>>),
      index |-> index,
      speaker |-> IF index % 2 = 1 THEN "ALICE" ELSE "NARRATOR",
      text |-> <<"line", index>>,
      durationMs |-> IF kind = "timed" THEN DurationAt(index) ELSE 0,
      exists |-> kind # "missing",
      buffer |-> BufferOf(index, kind) ]

\* the orders a caller can pass files in: distinct indexes, any order
FileOrders ==
    UNION { { q \in [1..n -> 0..(MaxFiles - 1)] :
                \A a, b \in 1..n : a # b => q[a] # q[b] } : n \in 0..MaxFiles }

PaddingOptions == {None, Some(0), Some(250), Some(-100)}

sortFiles_CallerOrder(files) == files

\* [...files].sort((a, b) => a.index - b.index)
sortFiles(files) == SortByIndexStable(files)

parseWavHeader_NoLengthCheck(buffer) ==
    IF buffer.riff # "RIFF" \/ buffer.wave # "WAVE" THEN None
    ELSE Some([ numChannels |-> buffer.numChannels,
                sampleRate |-> buffer.sampleRate,
                bitsPerSample |-> buffer.bitsPerSample,
                dataSize |-> buffer.dataSize ])

\* parseWavHeader: null for a buffer shorter than the header or without
\* the RIFF and WAVE markers, else the fields of the header
parseWavHeader(buffer) ==
    IF buffer.length < 44 THEN None
    ELSE IF buffer.riff # "RIFF" \/ buffer.wave # "WAVE" THEN None
    ELSE Some([ numChannels |-> buffer.numChannels,
                sampleRate |-> buffer.sampleRate,
                bitsPerSample |-> buffer.bitsPerSample,
                dataSize |-> buffer.dataSize ])

\* extractWavData: the length of the data chunk, which subarray cuts at
\* the end of the buffer
extractWavData(buffer) ==
    IF buffer.length < 44 THEN 0
    ELSE Min(buffer.dataSize, buffer.length - 44)

durationOr_AsSupplied(supplied, calculated) == supplied

\* `file.durationMs || calculateDuration(...)`: the supplied duration
\* unless it is 0, else the one calculated from the payload
durationOr(supplied, calculated) ==
    IF supplied # 0 THEN supplied ELSE calculated

position_NoPadding(position, durationMs, isLast, silencePaddingMs) ==
    position + durationMs

position_PaddingAfterLast(position, durationMs, isLast, silencePaddingMs) ==
    position + durationMs + silencePaddingMs

\* currentPositionMs after a file: its duration, and the padding when the
\* file is not the last one and the padding is positive
nextPosition(position, durationMs, isLast, silencePaddingMs) ==
    position + durationMs
      + (IF ~isLast /\ silencePaddingMs > 0 THEN silencePaddingMs ELSE 0)

IdleStitch ==
    [ pc |-> "idle", files |-> <<>>, silencePaddingMs |-> 0,
      sortedFiles |-> <<>>, silenceBuffer |-> 0, i |-> 0,
      manifestSegments |-> <<>>, audioChunks |-> <<>>,
      currentPositionMs |-> 0, output |-> None, result |-> None,
      error |-> None ]

InitStitch ==
    /\ manifest = None
    /\ disk = {}
    /\ lastUpsert = [ id \in SegmentIds |-> None ]
    /\ hit = None
    /\ plan = None
    /\ mut = None
    /\ savedManifest = None
    /\ storyFile = <<>>
    /\ configFile = ConfigCalm
    /\ run = [ pc |-> "unused" ]
    /\ tts = [ pc |-> "unused" ]
    /\ pool = [ pc |-> "unused" ]
    /\ stitch = IdleStitch

stitchUnchanged == <<manifest, disk, cacheCallVars, runVars, tts, pool>>

\* stitchAudioFiles up to its first await: the options' defaults, the sort,
\* the silence buffer (Buffer.alloc throws for a negative size)
stitchAudioFilesEntry(files, padding) ==
    LET silencePaddingMs ==
            Coalesce(padding,
                     Some(DefaultStitchOptions.silencePaddingMs))[1]
        silenceBuffer ==
            generateSilence(silencePaddingMs,
                            DefaultStitchOptions.sampleRate,
                            DefaultStitchOptions.numChannels,
                            DefaultStitchOptions.bitsPerSample)
        sortedFiles == sortFiles(files)
        t == [ stitch EXCEPT !.files = files,
                             !.silencePaddingMs = silencePaddingMs,
                             !.sortedFiles = sortedFiles ]
    IN  IF silenceBuffer < 0
        THEN stitch' = [ t EXCEPT !.pc = "threw",
                                  !.error = Some("ERR_OUT_OF_RANGE") ]
        ELSE stitch' = [ t EXCEPT
                           !.silenceBuffer = silenceBuffer,
                           !.pc = IF sortedFiles = <<>> THEN "writing"
                                  ELSE "reading" ]

StitchAudioFiles ==
    /\ stitch.pc = "idle"
    /\ \E order \in FileOrders, kinds \in [0..(MaxFiles - 1) -> FileKinds],
          padding \in PaddingOptions :
          stitchAudioFilesEntry(
              [ k \in DOMAIN order |-> AudioFileInfo(order[k], kinds[order[k]]) ],
              padding)
    /\ UNCHANGED stitchUnchanged

\* one pass of the loop over the sorted files: the existence check, the
\* header, the duration, the manifest segment, the audio and the padding
ReadAudioFile ==
    /\ stitch.pc = "reading"
    /\ LET file == stitch.sortedFiles[stitch.i + 1]
           header == parseWavHeader(file.buffer)
           isLast == ~(stitch.i < Len(stitch.sortedFiles) - 1)
       IN  IF ~file.exists
           THEN stitch' = [ stitch EXCEPT
                              !.pc = "threw",
                              !.error = Some(<<"Audio file not found", file.path>>) ]
           ELSE IF header = None
           THEN stitch' = [ stitch EXCEPT
                              !.pc = "threw",
                              !.error = Some(<<"Invalid WAV file", file.path>>) ]
           ELSE LET audioData == extractWavData(file.buffer)
                    durationMs ==
                        durationOr(file.durationMs,
                            calculateDuration(audioData,
                                 header[1].sampleRate, header[1].numChannels,
                                 header[1].bitsPerSample))
                    segment ==
                        [ index |-> file.index,
                          speaker |-> file.speaker,
                          text |-> file.text,
                          startMs |-> stitch.currentPositionMs,
                          endMs |-> stitch.currentPositionMs + durationMs,
                          durationMs |-> durationMs,
                          audioFile |-> basename(file.path) ]
                    chunk == [ kind |-> "audio", index |-> file.index,
                               bytes |-> audioData ]
                    silence == [ kind |-> "silence", index |-> file.index,
                                 bytes |-> stitch.silenceBuffer ]
                IN  stitch' = [ stitch EXCEPT
                      !.manifestSegments = Append(@, segment),
                      !.audioChunks =
                          IF ~isLast /\ stitch.silencePaddingMs > 0
                          THEN @ \o <<chunk, silence>>
                          ELSE Append(@, chunk),
                      !.currentPositionMs =
                          nextPosition(@, durationMs, isLast,
                                       stitch.silencePaddingMs),
                      !.i = @ + 1,
                      !.pc = IF isLast THEN "writing" ELSE "reading" ]
    /\ UNCHANGED stitchUnchanged

\* the chunks are concatenated behind a new header, the output file is
\* written and the result, with the timing manifest, returned
WriteOutputFile ==
    /\ stitch.pc = "writing"
    /\ LET dataLength == SumSeq([ k \in DOMAIN stitch.audioChunks |->
                                    stitch.audioChunks[k].bytes ])
       IN  stitch' = [ stitch EXCEPT
             !.pc = "returned",
             !.output = Some([ dataLength |-> dataLength,
                               sampleRate |-> DefaultStitchOptions.sampleRate,
                               numChannels |-> DefaultStitchOptions.numChannels,
                               bitsPerSample |-> DefaultStitchOptions.bitsPerSample,
                               chunks |-> stitch.audioChunks ]),
             !.result = Some([ totalDurationMs |-> stitch.currentPositionMs,
                               segmentCount |-> Len(stitch.sortedFiles),
                               fileSize |-> 44 + dataLength,
                               segments |-> stitch.manifestSegments ]) ]
    /\ UNCHANGED stitchUnchanged

NextStitch ==
    \/ StitchAudioFiles
    \/ ReadAudioFile
    \/ WriteOutputFile

SpecStitch == InitStitch /\ [][NextStitch]_vars

(***************************************************************************)
(* Properties of stitchAudioFiles.                                         *)
(***************************************************************************)
AscendingByIndex(q) ==
    \A a, b \in DOMAIN q : a < b => q[a].index <= q[b].index

\* the audio payloads of the output file, in file order
Payloads == SelectSeq(stitch.output[1].chunks, LAMBDA c : c.kind = "audio")

\* C18: whatever the order of the files passed to stitchAudioFiles, the
\* segments of the timing manifest it returns and the audio payloads of
\* the output file are those of the files, in ascending index order.
C18_OutputInIndexOrder ==
    stitch.pc = "returned" =>
        /\ AscendingByIndex(stitch.result[1].segments)
        /\ AscendingByIndex(Payloads)
        /\ Len(stitch.result[1].segments) = Len(stitch.files)
        /\ Len(Payloads) = Len(stitch.files)
        /\ \A k \in DOMAIN stitch.files :
              \E j \in DOMAIN Payloads :
                  /\ Payloads[j].index = stitch.files[k].index
                  /\ stitch.result[1].segments[j].index = stitch.files[k].index

\* the files were passed in the order 2, 0, 1
C18_Witness ==
    /\ stitch.pc = "returned"
    /\ Len(stitch.files) = 3
    /\ stitch.files[1].index = 2
    /\ stitch.files[2].index = 0
    /\ stitch.files[3].index = 1
    /\ stitch.result[1].segments[1].index = 0
    /\ stitch.result[1].segments[3].index = 2
    /\ Payloads[1].index = 0

\* C19: in the timing manifest stitchAudioFiles returns, the first segment
\* starts at 0, each segment's endMs is its startMs plus its durationMs,
\* and each following segment's startMs is the previous segment's endMs
\* plus the silence padding.
C19_TimingOffsets ==
    stitch.pc = "returned" =>
        LET segs == stitch.result[1].segments
        IN  /\ segs # <<>> => segs[1].startMs = 0
            /\ \A k \in DOMAIN segs :
                  segs[k].endMs = segs[k].startMs + segs[k].durationMs
            /\ \A k \in DOMAIN segs :
                  k > 1 => segs[k].startMs =
                             segs[k - 1].endMs + stitch.silencePaddingMs

\* three files of 1000, 1100 and 1200 ms with a padding of 250 ms
C19_Witness ==
    /\ stitch.pc = "returned"
    /\ stitch.silencePaddingMs = 250
    /\ Len(stitch.result[1].segments) = 3
    /\ stitch.result[1].segments[1].startMs = 0
    /\ stitch.result[1].segments[2].startMs = 1250
    /\ stitch.result[1].segments[3].startMs = 2600
    /\ stitch.result[1].segments[3].endMs = 3800

\* C20: for n >= 1 files and a silence padding s, the totalDurationMs that
\* stitchAudioFiles reports is the sum of the segments' durations plus
\* (n - 1) * s, and the output holds silence between every two consecutive
\* payloads and none after the last.
C20_TotalDuration ==
    stitch.pc = "returned" /\ Len(stitch.files) >= 1 =>
        LET segs == stitch.result[1].segments
            n == Len(stitch.files)
            chunks == stitch.output[1].chunks
        IN  /\ stitch.result[1].totalDurationMs =
                  SumSeq([ k \in DOMAIN segs |-> segs[k].durationMs ])
                    + (n - 1) * stitch.silencePaddingMs
            /\ chunks[Len(chunks)].kind = "audio"
            /\ stitch.silencePaddingMs > 0 =>
                  /\ Len(chunks) = 2 * n - 1
                  /\ \A k \in DOMAIN chunks :
                        chunks[k].kind = (IF k % 2 = 1 THEN "audio" ELSE "silence")

\* three files with the default padding of 500 ms: 3300 ms of audio and
\* two paddings
C20_Witness ==
    /\ stitch.pc = "returned"
    /\ Len(stitch.files) = 3
    /\ stitch.silencePaddingMs = 500
    /\ stitch.result[1].totalDurationMs = 4300
    /\ Len(stitch.output[1].chunks) = 5

\* a file that stitchAudioFiles cannot read: none at the path, or one that
\* is shorter than a header or lacks the RIFF or WAVE marker
Unreadable(file) ==
    \/ ~file.exists
    \/ file.buffer.length < 44
    \/ file.buffer.riff # "RIFF"
    \/ file.buffer.wave # "WAVE"

\* C21: when a file passed to stitchAudioFiles is missing or is no
\* well-formed WAV container, the call raises an error and writes no output
\* file: the loop never gets past that file, so no segment is skipped and
\* nothing is returned.
C21_UnreadableFileAborts ==
    \A k \in DOMAIN stitch.sortedFiles :
        Unreadable(stitch.sortedFiles[k]) =>
            /\ stitch.i < k
            /\ stitch.output = None
            /\ stitch.result = None
            /\ stitch.pc \in {"reading", "threw"}
            /\ stitch.pc = "threw" => stitch.error # None
            /\ /\ stitch.pc = "threw"
               /\ stitch.silencePaddingMs >= 0
               /\ \A j \in 1..(k - 1) : ~Unreadable(stitch.sortedFiles[j])
               => /\ stitch.i = k - 1
                  /\ stitch.error[1][2] = stitch.sortedFiles[k].path

\* the second of three files is cut off inside its header: the call threw
\* after reading the first file and wrote nothing
C21_Witness ==
    /\ stitch.pc = "threw"
    /\ Len(stitch.sortedFiles) = 3
    /\ stitch.sortedFiles[2].exists
    /\ stitch.sortedFiles[2].buffer.length < 44
    /\ stitch.i = 1
    /\ Len(stitch.manifestSegments) = 1
    /\ stitch.error = Some(<<"Invalid WAV file", stitch.sortedFiles[2].path>>)
    /\ stitch.output = None

(***************************************************************************)
(* cache.ts: recoverCachedSegments, applied to the audio files that runs   *)
(* with several formats and cache directories have left on disk.           *)
(***************************************************************************)
MaxDiskFiles == 3    \* the audio files on disk at one time

ConfigMp3 == [ ConfigDramatic EXCEPT !.format = "mp3" ]

RecoverConfigs == { ConfigCalm, ConfigMp3 }

\* the storyHash argument of the cache functions: left out, or the story's
StoryHashArgs == { None, Some(hashText("story")) }

\* fileExists of a directory: the directories of this world hold a file
dirExists(d, dir) == \E path \in d : path[1] = dir

RECURSIVE recoverLoop_AnyFile(_, _, _, _)
recoverLoop_AnyFile(d, segments, config, storyHash) ==
    IF segments = <<>> THEN <<>>
    ELSE LET segment == Head(segments)
             audioPath == getCachedSegmentPath(segment.id, config.format,
                                               storyHash)
             rest == recoverLoop_AnyFile(d, Tail(segments), config, storyHash)
         IN  IF \E path \in d : path[2][1] = segment.id
             THEN << [ segmentId |-> segment.id,
                       index |-> segment.index,
                       speaker |-> segment.speaker,
                       audioPath |-> audioPath,
                       durationMs |-> 0,
                       fileSize |-> 57644,
                       hash |-> generateSegmentHash(segment, config),
                       provider |-> config.provider,
                       success |-> TRUE,
                       error |-> None ] >> \o rest
             ELSE rest

RECURSIVE recoverLoop(_, _, _, _)
\* the loop of recoverCachedSegments over the segments: an entry for each
\* segment whose audio file exists at its expected path
recoverLoop(d, segments, config, storyHash) ==
    IF segments = <<>> THEN <<>>
    ELSE LET segment == Head(segments)
             audioPath == getCachedSegmentPath(segment.id, config.format,
                                               storyHash)
             rest == recoverLoop(d, Tail(segments), config, storyHash)
         IN  IF audioPath \in d
             THEN << [ segmentId |-> segment.id,
                       index |-> segment.index,
                       speaker |-> segment.speaker,
                       audioPath |-> audioPath,
                       durationMs |-> 0,
                       fileSize |-> 57644,
                       hash |-> generateSegmentHash(segment, config),
                       provider |-> config.provider,
                       success |-> TRUE,
                       error |-> None ] >> \o rest
             ELSE rest

recoverCachedSegments(d, segments, config, storyHash) ==
    LET segmentsDir == <<getCacheDir(storyHash), "segments">>
    IN  IF ~dirExists(d, segmentsDir) THEN <<>>
        ELSE recoverLoop(d, segments, config, storyHash)

InitRecover ==
    /\ manifest = None
    /\ disk = {}
    /\ lastUpsert = [ id \in SegmentIds |-> None ]
    /\ hit = None
    /\ plan = None
    /\ mut = None
    /\ savedManifest = None
    /\ storyFile = <<>>
    /\ configFile = ConfigCalm
    /\ run = [ pc |-> "unused" ]
    /\ tts = [ pc |-> "unused" ]
    /\ pool = [ pc |-> "unused" ]
    /\ stitch = [ pc |-> "unused" ]

recoverUnchanged ==
    <<manifest, lastUpsert, hit, mut, runVars, tts, pool, stitch>>

\* a run has written a segment's audio file into its cache directory
WriteSegmentFile ==
    /\ plan = None
    /\ Cardinality(disk) < MaxDiskFiles
    /\ \E segment \in Segments, config \in RecoverConfigs,
          storyHash \in StoryHashArgs :
          disk' = disk \cup
                    { getCachedSegmentPath(segment.id, config.format, storyHash) }
    /\ UNCHANGED <<plan, recoverUnchanged>>

\* an audio file is deleted
RemoveSegmentFile ==
    /\ plan = None
    /\ \E path \in disk : disk' = disk \ {path}
    /\ UNCHANGED <<plan, recoverUnchanged>>

\* one call of recoverCachedSegments, the manifest being lost
RecoverCachedSegments ==
    /\ plan = None
    /\ \E segments \in Stories, config \in RecoverConfigs,
          storyHash \in StoryHashArgs :
          plan' = Some([ op |-> "recoverCachedSegments",
                         segments |-> segments,
                         config |-> config,
                         storyHash |-> storyHash,
                         recovered |-> recoverCachedSegments(disk, segments,
                                                             config, storyHash) ])
    /\ UNCHANGED <<disk, recoverUnchanged>>

\* the caller is done with the recovered entries
ForgetRecovered ==
    /\ plan # None
    /\ plan' = None
    /\ UNCHANGED <<disk, recoverUnchanged>>

NextRecover ==
    \/ WriteSegmentFile
    \/ RemoveSegmentFile
    \/ RecoverCachedSegments
    \/ ForgetRecovered

SpecRecover == InitRecover /\ [][NextRecover]_vars

\* the positions of the given segments whose expected audio file is on disk
WithFile(segments, config, storyHash) ==
    { k \in DOMAIN segments :
        getCachedSegmentPath(segments[k].id, config.format, storyHash) \in disk }

\* a manifest that holds the recovered entries
ManifestOf(recovered) ==
    Some([ createEmptyManifest(hashText("story"), hashConfig(ConfigCalm))
             EXCEPT !.segments = recovered ])

Truncated(content) == [ content EXCEPT !.eof = FALSE ]

\* the manifest as a release with another CACHE_VERSION wrote it
OtherVersion(content) == [ content EXCEPT !.json.version = "0.9.0" ]

\* manifest.json is deleted, damaged or replaced between two runs
DamageManifestFile ==
    /\ BetweenRuns
    /\ savedManifest # None
    /\ savedManifest[1].eof
    /\ savedManifest[1].json.version = CACHE_VERSION
    /\ savedManifest' \in { None,
                            Some(Truncated(savedManifest[1])),
                            Some(OtherVersion(savedManifest[1])) }
    /\ UNCHANGED <<manifest, disk, cacheCallVars, tts, pool, stitch,
                   storyFile, configFile, run>>

NextLoad ==
    \/ StartRun
    \/ GenerateSegment
    \/ VerifyCachedSegment
    \/ FinishRun
    \/ ExitProcess
    \/ DamageManifestFile

SpecLoad == InitRun /\ [][NextLoad]_vars

\* a manifest file that is missing, cannot be parsed or is of another version
Unloadable(saved) ==
    \/ saved = None
    \/ ~saved[1].eof
    \/ saved[1].json.version # CACHE_VERSION

\* C23: loadCacheManifest returns absent whenever the manifest file is
\* missing, of another cache version or unparseable, and the run that
\* loaded it proceeds from an empty manifest with every segment planned
\* for generation.
C23_UnloadableManifestIsAbsent ==
    run.pc \notin {"idle", "unused"} /\ Unloadable(savedManifest) =>
        /\ loadCacheManifest(savedManifest) = None
        /\ run.loaded = None
        /\ run.segmentsToGenerate = run.segmentsToProcess
        /\ run.cachedSegmentsInfo = <<>>
        /\ manifest # None
        /\ \A e \in DOMAIN manifest[1].segments :
              \E k \in 1..run.i :
                  manifest[1].segments[e].segmentId = run.segmentsToGenerate[k].id

\* the manifest file was cut off after a run of two segments: the next run
\* loaded nothing and is generating its second segment
C23_Witness ==
    /\ run.pc = "generating"
    /\ savedManifest # None
    /\ ~savedManifest[1].eof
    /\ Len(savedManifest[1].json.segments) = 2
    /\ run.loaded = None
    /\ run.i = 1
    /\ Len(manifest[1].segments) = 1

(***************************************************************************)
(* Frame properties of a generate run (checked under SpecRun).             *)
(***************************************************************************)
\* the segments a run called generateSegmentAudio for
Attempted ==
    { run.segmentResults[k].segment.id :
        k \in { j \in DOMAIN run.segmentResults :
                  ~run.segmentResults[j].fromCache } }

\* C24: a generate run removes no entry from the persisted manifest: every
\* entry that was in the manifest file before the run, for a segment the
\* run did not generate again, is in the file unchanged after the run.
C24_RunRemovesNoEntry ==
    run.pc \in {"done", "exited"} /\ ~run.dryRun /\ run.loaded # None =>
        \A e \in DOMAIN run.loaded[1].segments :
            LET entry == run.loaded[1].segments[e]
            IN  entry.segmentId \notin Attempted =>
                    /\ savedManifest # None
                    /\ \E k \in DOMAIN savedManifest[1].json.segments :
                          savedManifest[1].json.segments[k] = entry

\* C25: a run for one story leaves the manifest entries of another story
\* generated into the same output directory unchanged: the entries that
\* the manifest file held for the other story's segments before the run
\* are in the file after it, so that a later run of the other story finds
\* them.
C25_OtherStoryEntriesKept ==
    ( /\ run.pc \in {"done", "exited"}
      /\ ~run.dryRun
      /\ ~run.force
      /\ run.loaded # None
      /\ run.loaded[1].storyHash # hashText(storyFile) )
    => \A e \in DOMAIN run.loaded[1].segments :
          LET entry == run.loaded[1].segments[e]
          IN  entry.segmentId \notin IdsOf(run.segmentsToProcess) =>
                  /\ savedManifest # None
                  /\ \E k \in DOMAIN savedManifest[1].json.segments :
                        savedManifest[1].json.segments[k].segmentId =
                            entry.segmentId

(***************************************************************************)
(* generateSegmentHash applied to a segment and a config, and again after  *)
(* one edit of the segment's text or of the voices of the config.          *)
(***************************************************************************)
HashConfigs == Configs \cup { ConfigMp3 }

\* the edits of a voice: a field and its new value
VoiceEdits ==
    { <<"stylePrompt", Some("calm")>>, <<"stylePrompt", Some("whisper")>>,
      <<"speed", Some(10)>>, <<"speed", Some(12)>>,
      <<"seed", None>>, <<"seed", Some(99)>>,
      <<"voiceName", Some("Puck")>> }

GlobalSeedEdits == { None, Some(12345), Some(1) }

TextEdits == { "a tyme", "a time", "Hello" }

\* the config with a field of every configured voice set to a value
EditVoices(config, field, value) ==
    [ config EXCEPT
        !.voices = [ k \in DOMAIN config.voices |->
                       [ config.voices[k] EXCEPT ![field] = value ] ],
        !.defaultVoice =
            IF config.defaultVoice = None THEN None
            ELSE Some([ config.defaultVoice[1] EXCEPT ![field] = value ]) ]

InitHash ==
    /\ manifest = None
    /\ disk = {}
    /\ lastUpsert = [ id \in SegmentIds |-> None ]
    /\ hit = None
    /\ plan = None
    /\ mut = None
    /\ savedManifest = None
    /\ storyFile = <<>>
    /\ configFile = ConfigCalm
    /\ run = [ pc |-> "unused" ]
    /\ tts = [ pc |-> "unused" ]
    /\ pool = [ pc |-> "unused" ]
    /\ stitch = [ pc |-> "unused" ]

hashUnchanged ==
    <<manifest, disk, lastUpsert, plan, mut, runVars, tts, pool, stitch>>

\* the two fingerprints of a segment, before and after an edit
HashCalls(segment, config, segment2, config2) ==
    Some([ op |-> "generateSegmentHash",
           segment |-> segment, config |-> config,
           segment2 |-> segment2, config2 |-> config2,
           before |-> generateSegmentHash(segment, config),
           after |-> generateSegmentHash(segment2, config2) ])

\* the text of a line is edited between two calls
HashAfterTextEdit ==
    /\ hit = None
    /\ \E segment \in Segments, config \in HashConfigs, text \in TextEdits :
          hit' = HashCalls(segment, config,
                           [ segment EXCEPT !.text = text ], config)
    /\ UNCHANGED hashUnchanged

\* a field of the voices of the config is edited between two calls
HashAfterVoiceEdit ==
    /\ hit = None
    /\ \E segment \in Segments, config \in HashConfigs, edit \in VoiceEdits :
          hit' = HashCalls(segment, config, segment,
                           EditVoices(config, edit[1], edit[2]))
    /\ UNCHANGED hashUnchanged

\* the global seed of the config is edited between two calls
HashAfterGlobalSeedEdit ==
    /\ hit = None
    /\ \E segment \in Segments, config \in HashConfigs,
          seed \in GlobalSeedEdits :
          hit' = HashCalls(segment, config, segment,
                           [ config EXCEPT !.globalSeed = seed ])
    /\ UNCHANGED hashUnchanged

ForgetHashes ==
    /\ hit # None
    /\ hit' = None
    /\ UNCHANGED hashUnchanged

NextHash ==
    \/ HashAfterTextEdit
    \/ HashAfterVoiceEdit
    \/ HashAfterGlobalSeedEdit
    \/ ForgetHashes

SpecHash == InitHash /\ [][NextHash]_vars

\* the fields of a VoiceConfig in which two resolved voices differ
DifferingFields(v, w) == { f \in DOMAIN v : v[f] # w[f] }

\* C26: when only the text of a segment changes, the textHash and the
\* combinedHash of generateSegmentHash change and the voiceHash does not;
\* when only the stylePrompt, speed or seed of the resolved voice changes,
\* the voiceHash and the combinedHash change and the textHash does not.
C26_HashSensitivity ==
    hit # None =>
        LET c == hit[1]
            v == getVoiceConfig(c.config, c.segment.speaker)
            w == getVoiceConfig(c.config2, c.segment2.speaker)
            changed == DifferingFields(v, w)
        IN  /\ c.segment2.text # c.segment.text /\ changed = {} =>
                  /\ c.after.textHash # c.before.textHash
                  /\ c.after.combinedHash # c.before.combinedHash
                  /\ c.after.voiceHash = c.before.voiceHash
            /\ /\ c.segment2.text = c.segment.text
               /\ changed # {}
               /\ changed \subseteq {"stylePrompt", "speed", "seed"}
               => /\ c.after.voiceHash # c.before.voiceHash
                  /\ c.after.combinedHash # c.before.combinedHash
                  /\ c.after.textHash = c.before.textHash

\* the speed of the narrator's configured voice went from 1.0 to 1.2
C26_Witness ==
    /\ hit # None
    /\ hit[1].segment.speaker = "NARRATOR"
    /\ hit[1].segment2 = hit[1].segment
    /\ getVoiceConfig(hit[1].config, "NARRATOR").speed = Some(10)
    /\ getVoiceConfig(hit[1].config2, "NARRATOR").speed = Some(12)
    /\ DifferingFields(getVoiceConfig(hit[1].config, "NARRATOR"),
                       getVoiceConfig(hit[1].config2, "NARRATOR")) = {"speed"}
    /\ hit[1].after.voiceHash # hit[1].before.voiceHash
    /\ hit[1].after.textHash = hit[1].before.textHash

(***************************************************************************)
(* getVoiceConfig applied to the speaker names and configs a story and a   *)
(* config file can hold.                                                   *)
(***************************************************************************)
SpeakerNames ==
    { "NARRATOR", "narrator", "Alice", "ALICE", "character1", "Bob" }

\* the voices lists of a config: none, the narrator's, the narrator's with
\* a seed of its own (0, which is not nullish) next to Alice's, and two
\* voices whose names differ in case only
VoiceLists ==
    { <<>>,
      << Voice("Narrator", None, Some("calm"), Some("Kore")) >>,
      << Voice("narrator", Some(0), Some("calm"), Some("Kore")),
         Voice("Alice", Some(42), Some("bright"), Some("Puck")) >>,
      << Voice("ALICE", None, Some("first"), Some("Puck")),
         Voice("alice", Some(5), Some("second"), Some("Charon")) >> }

DefaultVoiceOptions ==
    { None,
      Some(Voice("default", Some(7), Some("plain"), Some("Puck"))),
      Some(Voice("default", None, Some("plain"), Some("Puck"))) }

VoiceConfigs ==
    { [ ConfigCalm EXCEPT !.voices = voices,
                          !.defaultVoice = defaultVoice,
                          !.globalSeed = globalSeed ] :
        voices \in VoiceLists, defaultVoice \in DefaultVoiceOptions,
        globalSeed \in { None, Some(12345) } }

InitVoice ==
    /\ manifest = None
    /\ disk = {}
    /\ lastUpsert = [ id \in SegmentIds |-> None ]
    /\ hit = None
    /\ plan = None
    /\ mut = None
    /\ savedManifest = None
    /\ storyFile = <<>>
    /\ configFile = ConfigCalm
    /\ run = [ pc |-> "unused" ]
    /\ tts = [ pc |-> "unused" ]
    /\ pool = [ pc |-> "unused" ]
    /\ stitch = [ pc |-> "unused" ]

\* one call of getVoiceConfig
GetVoiceConfig ==
    /\ hit = None
    /\ \E speaker \in SpeakerNames, config \in VoiceConfigs :
          hit' = Some([ op |-> "getVoiceConfig",
                        speaker |-> speaker, config |-> config,
                        voice |-> getVoiceConfig(config, speaker) ])
    /\ UNCHANGED hashUnchanged

ForgetVoice ==
    /\ hit # None
    /\ hit' = None
    /\ UNCHANGED hashUnchanged

NextVoice ==
    \/ GetVoiceConfig
    \/ ForgetVoice

SpecVoice == InitVoice /\ [][NextVoice]_vars

\* the positions in config.voices whose name is the speaker's, case aside
Matches(config, speaker) ==
    { k \in DOMAIN config.voices :
        toUpperCase(config.voices[k].name) = toUpperCase(speaker) }

\* the seed of a resolved voice: the voice's own when it has one
SeedOf(own, config) == IF own # None THEN own ELSE config.globalSeed

\* C27: for every speaker name and config, getVoiceConfig returns a voice
\* chosen by the first applicable rule: a voice of config.voices whose name
\* is the speaker's case-insensitively, else config.defaultVoice, else the
\* built-in default of that name, else a minimal default; a seed of the
\* chosen voice takes precedence over globalSeed.
C27_VoiceResolutionOrder ==
    hit # None =>
        LET c == hit[1]
            config == c.config
            matches == Matches(config, c.speaker)
            builtin == DEFAULT_VOICES(toUpperCase(c.speaker))
        IN  IF matches # {}
            THEN \E k \in matches :
                    /\ \A j \in matches : k <= j
                    /\ c.voice = [ config.voices[k] EXCEPT
                                     !.seed = SeedOf(config.voices[k].seed, config) ]
            ELSE IF config.defaultVoice # None
            THEN c.voice = [ config.defaultVoice[1] EXCEPT
                               !.name = c.speaker,
                               !.seed = SeedOf(config.defaultVoice[1].seed, config) ]
            ELSE IF builtin # None
            THEN /\ c.voice.name = c.speaker
                 /\ c.voice.voiceName = builtin[1].voiceName
                 /\ c.voice.stylePrompt = builtin[1].stylePrompt
                 /\ c.voice.seed = config.globalSeed
            ELSE /\ c.voice.name = c.speaker
                 /\ c.voice.voiceName = Some(GEMINI_VOICES[1])
                 /\ c.voice.seed = config.globalSeed

\* "NARRATOR" resolved by the voice named "narrator", whose seed 0 is kept
\* although the config has a global seed and a default voice
C27_Witness ==
    /\ hit # None
    /\ hit[1].speaker = "NARRATOR"
    /\ hit[1].config.globalSeed = Some(12345)
    /\ hit[1].config.defaultVoice # None
    /\ hit[1].voice.name = "narrator"
    /\ hit[1].voice.seed = Some(0)

(***************************************************************************)
(* getSegmentsWithStyleChanges applied to the manifests that upserts       *)
(* build, and before there is a manifest.                                  *)
(***************************************************************************)
\* one call of getSegmentsWithStyleChanges, with or without a speaker filter
StyleChangesCall ==
    /\ NoCallRecorded
    /\ \E segments \in Stories, config \in Configs,
          speakers \in {None} \cup { Some(a) : a \in SpeakerArgs } :
         plan' = Some([ op |-> "getSegmentsWithStyleChanges",
                        manifest |-> manifest, segments |-> segments,
                        config |-> config, speakers |-> speakers,
                        changed |-> getSegmentsWithStyleChanges(
                                        manifest, segments, config, speakers) ])
    /\ UNCHANGED <<manifest, disk, lastUpsert, hit, mut, runVars, tts, pool, stitch>>

NextStyle ==
    \/ CreateEmptyManifest
    \/ UpdateCachedSegment
    \/ StyleChangesCall
    \/ ForgetCall

SpecStyle == Init /\ [][NextStyle]_vars

\* C28: given a speaker filter, getSegmentsWithStyleChanges returns no
\* segment whose speaker is not in the filter, compared case-insensitively,
\* with a manifest and without one.
C28_SpeakerFilterRespected ==
    plan # None /\ plan[1].speakers # None =>
        \A k \in DOMAIN plan[1].changed :
            \E s \in plan[1].speakers[1] :
                toUpperCase(s) = toUpperCase(plan[1].changed[k].speaker)

(***************************************************************************)
(* Frame properties of the manifest's mutators (checked under Spec).       *)
(***************************************************************************)
\* the id that a recorded updateCachedSegment or removeCachedSegment call
\* was made for
TargetId(call) ==
    IF call.op = "updateCachedSegment" THEN call.segment.id ELSE call.segmentId

\* the entries of a segments list with another id than the given one
Others(segments, id) == SelectSeq(segments, LAMBDA s : s.segmentId # id)

UpsertGenerated ==
    /\ NoCallRecorded
    /\ manifest # None
    /\ \E segment \in Segments, config \in RecoverConfigs :
         \E result \in ResultsFor(segment, config) :
            /\ \/ Len(manifest[1].segments) < MaxEntries
               \/ FindEntry(manifest[1].segments, segment.id) # None
            /\ manifest' = Some(updateCachedSegment(manifest[1], segment, config, result))
            /\ disk' = IF result.success THEN disk \cup {result.audioPath} ELSE disk
            /\ lastUpsert' = [ lastUpsert EXCEPT ![segment.id] =
                                 Some([ segment |-> segment, config |-> config,
                                        result |-> result ]) ]
            /\ mut' = Some([ op |-> "updateCachedSegment", before |-> manifest[1],
                             segment |-> segment,
                             passed |-> argumentAfterUpdate(manifest[1], segment,
                                                            config, result) ])
    /\ UNCHANGED <<hit, plan, runVars, tts, pool, stitch>>

NextRemove ==
    \/ CreateEmptyManifest
    \/ UpsertGenerated
    \/ RemoveCachedSegment
    \/ ForgetCall

SpecRemove == Init /\ [][NextRemove]_vars

\* C30: removeCachedSegment called for an id that has an entry removes the
\* entry from the manifest and deletes the entry's backing audio file, the
\* file at the path the segment's audio was written to.
C30_RemoveDeletesBackingFile ==
    mut # None /\ mut[1].op = "removeCachedSegment" =>
        LET cached == FindEntry(mut[1].before.segments, mut[1].segmentId)
        IN  cached # None =>
                /\ FindEntry(manifest[1].segments, mut[1].segmentId) = None
                /\ cached[1].success => cached[1].audioPath \notin disk

(***************************************************************************)
(* The result of a generate run (checked under SpecRun).                   *)
(***************************************************************************)
\* the results of the run with success false
FailedResults == SelectSeq(run.segmentResults, LAMBDA r : ~r.success)

\* C31: a generate run that has assembled its audiobook reports success =
\* true exactly when none of its segment results failed; with a failed
\* segment it has still assembled the successful segments, in index order,
\* and reports success = false.
C31_SuccessIffNoFailure ==
    run.pc = "done" /\ ~run.dryRun =>
        LET successful == SelectSeq(run.segmentResults, LAMBDA r : r.success)
        IN  /\ run.success <=> FailedResults = <<>>
            /\ run.output # None
            /\ run.output[1] = [ k \in DOMAIN successful |->
                                   successful[k].segment.id ]
            /\ successful # <<>>

\* a run of two segments, the first failed: the second alone is assembled
\* and the run reports success = false
C31_Witness ==
    /\ run.pc = "done"
    /\ ~run.dryRun
    /\ Len(run.segmentResults) = 2
    /\ ~run.segmentResults[1].success
    /\ run.segmentResults[2].success
    /\ Len(run.output[1]) = 1
    /\ ~run.success

(***************************************************************************)
(* Further properties of processWithConcurrency (checked under SpecPool).  *)
(***************************************************************************)
\* a step in which no processor invocation starts
NoItemStarted == pool'.invoked = pool.invoked

\* every result recorded so far is the result of the item at its index
ResultsAtOwnIndex ==
    \A k \in DOMAIN pool.results :
        pool.results[k] # None =>
            /\ pool.results[k][1].index = k - 1
            /\ pool.results[k][1].item = pool.items[k]

\* C32: with stopOnError true, from the moment a processor invocation has
\* thrown no further item is started; the invocations in flight settle and
\* each result is recorded at the index of its item.
C32_StopOnErrorStartsNoItem ==
    /\ [](pool.pc = "running" /\ pool.onProgress # "throws" => ResultsAtOwnIndex)
    /\ [][ pool.pc = "running" /\ pool.stopOnError /\ pool'.hasError
             => /\ NoItemStarted
                /\ \A w \in DOMAIN pool.workers :
                      pool.workers[w].state = "awaiting" =>
                          \/ pool'.workers[w] = pool.workers[w]
                          \/ /\ pool'.workers[w].state \in {"done", "failed"}
                             /\ pool.onProgress # "throws" =>
                                  pool'.results[pool.workers[w].index + 1] # None
       ]_vars

\* five items, two workers, stopOnError: the first item threw, the second
\* settled after that and was recorded, the other three were never started
C32_Witness ==
    /\ pool.outcome = "returned"
    /\ pool.stopOnError
    /\ Len(pool.items) = 5
    /\ pool.concurrency = 2
    /\ pool.progress = << <<1, 0>>, <<2, 1>> >>
    /\ ~pool.results[1][1].success
    /\ pool.results[2][1].success
    /\ pool.invoked = <<1, 1, 0, 0, 0>>
    /\ pool.results[3] = None

(***************************************************************************)
(* Provenance of the audio files.  generateAudiobook writes a segment's    *)
(* audio to getCachedSegmentPath(outputDir, segment.id, format): the path  *)
(* depends on the segment id (index, speaker, text) and on the format, not *)
(* on the voice.  To state what a file on disk was generated from, the     *)
(* specification below keeps, per path, the segment hashes (text hash and  *)
(* resolved-voice hash) of the generation that last wrote the file; the    *)
(* record is kept in lastUpsert, which the run does not otherwise use.     *)
(* The environment is the one of the claim: runs, edits of the config      *)
(* between runs, kills of the process at an await, and loss of the         *)
(* manifest file.                                                          *)
(***************************************************************************)
InitStale ==
    /\ manifest = None
    /\ disk = {}
    /\ lastUpsert = <<>>
    /\ hit = None
    /\ plan = None
    /\ mut = None
    /\ savedManifest = None
    /\ storyFile \in StoryFiles
    /\ configFile = ConfigCalm
    /\ run = IdleRun
    /\ tts = [ pc |-> "unused" ]
    /\ pool = [ pc |-> "unused" ]
    /\ stitch = [ pc |-> "unused" ]

\* the generation loop body, recording what the written file was made from
GenerateSegmentTracked ==
    /\ generationLoopBody
    /\ LET result == run'.segmentResults[Len(run'.segmentResults)]
       IN  lastUpsert' =
               IF result.success
               THEN (result.audioPath :> generateSegmentHash(result.segment, run.config))
                        @@ lastUpsert
               ELSE lastUpsert

\* cache-manifest.json is deleted between two runs; the segment files stay
LoseManifest ==
    /\ BetweenRuns
    /\ savedManifest # None
    /\ savedManifest' = None
    /\ UNCHANGED <<manifest, disk, cacheCallVars, tts, pool, stitch, storyFile, configFile, run>>

NextStale ==
    \/ StartRun /\ ~run'.force /\ ~run'.dryRun /\ run'.pc # "failed"
    \/ GenerateSegmentTracked
    \/ VerifyCachedSegment
    \/ FinishRun
    \/ ExitProcess
    \/ Interrupt
    \/ EditConfig
    \/ LoseManifest

SpecStale == InitStale /\ [][NextStale]_vars

\* C33: every segment result the run takes from the cache (a hit whose file
\* exists) is backed by a file that was generated from the segment's current
\* text with the voice configuration the current config resolves for it
C33_CacheHitAudioIsCurrent ==
    run.pc \notin {"idle", "unused"} =>
        \A k \in 1..Len(run.segmentResults) :
            LET r == run.segmentResults[k]
            IN  r.fromCache =>
                    /\ r.audioPath \in DOMAIN lastUpsert
                    /\ lastUpsert[r.audioPath] = generateSegmentHash(r.segment, run.config)

\* a manifest segment whose file came with durationMs 0 and holds audio
Placeholder(k) ==
    /\ stitch.sortedFiles[k].durationMs = 0
    /\ extractWavData(stitch.sortedFiles[k].buffer) > 0

\* C34: a file supplied with durationMs 0 gets, in the timing manifest, the
\* duration calculated from its payload and its header; when the payload is
\* not empty that duration is not 0, and the segment ends after it starts
C34_ZeroDurationRecomputed ==
    stitch.pc \in {"reading", "writing", "returned"} =>
        \A k \in 1..Len(stitch.manifestSegments) :
            Placeholder(k) =>
                LET buffer == stitch.sortedFiles[k].buffer
                    s == stitch.manifestSegments[k]
                IN  /\ s.durationMs =
                           calculateDuration(extractWavData(buffer),
                               buffer.sampleRate, buffer.numChannels,
                               buffer.bitsPerSample)
                    /\ s.durationMs # 0
                    /\ s.startMs < s.endMs

\* a stitch has returned whose second file came with durationMs 0, after a
\* file that came with its duration
C34_Witness ==
    /\ stitch.pc = "returned"
    /\ Len(stitch.manifestSegments) >= 2
    /\ ~Placeholder(1)
    /\ Placeholder(2)
    /\ stitch.result[1].segments[2].durationMs = DurationAt(stitch.sortedFiles[2].index)

(***************************************************************************)
(* The assembly of a generate run.  generateAudiobook hands                *)
(* stitchAudioFiles the successful results, each with the durationMs the   *)
(* provider returned for it: estimateWavDuration of the WAV buffer it      *)
(* wrote, a Math.round of the payload's length in milliseconds.  The       *)
(* payloads of this specification are PCM of 24 kHz, 16 bit, mono, of      *)
(* lengths that are and are not a whole number of milliseconds.            *)
(***************************************************************************)
\* PCM byte counts: 1000 ms, 1000.5 ms and 1200.25 ms of audio
PcmSizes == {48000, 48024, 57612}

\* the file generateAudio writes for PCM of a size: convertToWav's header
\* and the data
GeneratedWav(bytes) ==
    LET wav == convertToWav(bytes)
    IN  [ length |-> wav.length, riff |-> "RIFF", wave |-> "WAVE",
          numChannels |-> wav.numChannels, sampleRate |-> wav.sampleRate,
          bitsPerSample |-> wav.bitsPerSample, dataSize |-> wav.dataSize ]

\* the AudioFileInfo generateAudiobook builds from a successful result
GeneratedFileInfo(index, bytes) ==
    [ path |-> join("segments", <<"seg", index>>),
      index |-> index,
      speaker |-> IF index % 2 = 1 THEN "ALICE" ELSE "NARRATOR",
      text |-> <<"line", index>>,
      durationMs |-> estimateWavDuration(GeneratedWav(bytes)),
      exists |-> TRUE,
      buffer |-> GeneratedWav(bytes) ]

\* generateAudiobook's call of stitchAudioFiles: the results in index
\* order, silencePaddingMs from config.audio.silencePadding
StitchGeneratedAudio ==
    /\ stitch.pc = "idle"
    /\ \E n \in 1..MaxFiles, sizes \in [0..(MaxFiles - 1) -> PcmSizes],
          silencePadding \in {0, 250, 500} :
          stitchAudioFilesEntry(
              [ k \in 1..n |-> GeneratedFileInfo(k - 1, sizes[k - 1]) ],
              Some(silencePadding))
    /\ UNCHANGED stitchUnchanged

NextTiming ==
    \/ StitchGeneratedAudio
    \/ ReadAudioFile
    \/ WriteOutputFile

SpecTiming == InitStitch /\ [][NextTiming]_vars

\* the bytes of the output's data that precede the payload of the k-th
\* manifest segment
BytesBefore(k) ==
    LET chunks == stitch.output[1].chunks
        at == CHOOSE c \in 1..Len(chunks) :
                  /\ chunks[c].kind = "audio"
                  /\ chunks[c].index = stitch.result[1].segments[k].index
    IN  SumSeq([ c \in 1..(at - 1) |-> chunks[c].bytes ])

\* the bytes of one second of the output file's audio
OutputBytesPerSecond ==
    stitch.output[1].sampleRate * stitch.output[1].numChannels
        * (stitch.output[1].bitsPerSample \div 8)

\* C35: in the timing manifest of a generate run every startMs is the
\* position of the segment's payload in the output file, and
\* totalDurationMs is the length of the file's audio (a time t ms is the
\* byte position b when t * bytes-per-second = b * 1000)
C35_TimingMatchesOutput ==
    stitch.pc = "returned" =>
        /\ \A k \in 1..Len(stitch.result[1].segments) :
               stitch.result[1].segments[k].startMs * OutputBytesPerSecond
                   = BytesBefore(k) * 1000
        /\ stitch.result[1].totalDurationMs * OutputBytesPerSecond
               = stitch.output[1].dataLength * 1000

(***************************************************************************)
(* generateAudio under fair scheduling: a generateContent call settles     *)
(* (with a response or an error), the timer of a backoff fires, and the    *)
(* file-system calls of the write complete.                                *)
(***************************************************************************)
SpecTTSLive ==
    /\ InitTTS
    /\ [][NextTTS]_vars
    /\ WF_vars(GenerateContent)
    /\ WF_vars(BackoffElapsed)
    /\ WF_vars(WriteAudioFile)

\* the calls of the request made with a seed: those of one seed attempt
CallsWithSeed(seed) == { k \in 1..Len(tts.calls) : tts.calls[k] = seed }

\* an error message of the rate-limit, timeout or 429/5xx class
Transient(message) ==
    \/ includes(message, <<"rate", "limit">>)
    \/ includes(message, <<"timeout">>)
    \/ includes(message, <<"429">>)
    \/ includes(message, <<"500">>)
    \/ includes(message, <<"503">>)

RetryLoopsBounded ==
    /\ \A k \in 1..Len(tts.calls) :
           Cardinality(CallsWithSeed(tts.calls[k])) <= tts.maxRetries + 1
    /\ \A k \in 1..(Len(tts.calls) - 1) :
           tts.calls[k + 1] = tts.calls[k] =>
               LET out == callGenerateContent(tts.replies[k])
               IN  out.error # None /\ Transient(out.error[1])
    /\ Len(tts.calls) <= (maxSeedRetries + 1) * (tts.maxRetries + 1)

\* C36: one seed attempt makes at most maxRetries + 1 calls, a call is
\* repeated with the same seed only after an error of the rate-limit,
\* timeout or 429/5xx class, the request makes at most
\* 4 * (maxRetries + 1) calls, and a request that has reached its first
\* call returns a success or a failure result
C36_RetryLoopsBoundedAndTerminate ==
    /\ [](tts.pc # "idle" => RetryLoopsBounded)
    /\ (tts.pc = "calling") ~> (tts.pc = "returned" /\ tts.result # None)

\* a request with maxRetries 1 has used up both budgets: eight calls, two
\* with each of four seeds, and a failure result
C36_Witness ==
    /\ tts.pc = "returned"
    /\ tts.maxRetries = 1
    /\ Len(tts.calls) = 8
    /\ ~tts.result[1].success

(***************************************************************************)
(* The provider over time.  One GeminiTTSProvider, with its one            *)
(* RateLimiter, serves the requests of a run one after the other, as the   *)
(* generation loop of generateAudiobook awaits each generateAudio; the     *)
(* clock advances in steps of half a window at any moment.  The requests   *)
(* are made with maxRetries 0 and no seed.                                 *)
(***************************************************************************)
MaxRequests == 2    \* the requests one provider serves

\* config.rateLimit
RateLimits == {1, 2}

TickMs == windowMs \div 2
MaxClock == 2 * windowMs

InitRate ==
    /\ manifest = None
    /\ disk = {}
    /\ lastUpsert = [ id \in SegmentIds |-> None ]
    /\ hit = None
    /\ plan = None
    /\ mut = None
    /\ savedManifest = None
    /\ storyFile = <<>>
    /\ configFile = ConfigCalm
    /\ run = [ pc |-> "unused" ]
    /\ \E rateLimit \in RateLimits :
           tts = [ IdleTTS EXCEPT !.rateLimit = rateLimit ]
    /\ pool = [ pc |-> "unused" ]
    /\ stitch = [ pc |-> "unused" ]

\* the timer of waitForSlot has fired: `return this.waitForSlot()`
AwaitSlot ==
    /\ tts.pc = "awaitingSlot"
    /\ tts.now >= tts.wakeAt
    /\ LET slot == waitForSlot(tts.requests, tts.now, tts.rateLimit)
       IN  tts' = [ tts EXCEPT
                      !.pc = IF slot.waitTime = None THEN "calling"
                             ELSE "awaitingSlot",
                      !.requests = slot.requests,
                      !.wakeAt = IF slot.waitTime = None THEN @
                                 ELSE tts.now + slot.waitTime[1] ]
    /\ UNCHANGED ttsUnchanged

\* the caller has its result and makes the next request of the same
\* provider: the client, the limiter and the clock stay
NextRequest ==
    /\ tts.pc = "returned"
    /\ tts.served + 1 < MaxRequests
    /\ tts' = [ IdleTTS EXCEPT !.client = tts.client,
                               !.now = tts.now,
                               !.rateLimit = tts.rateLimit,
                               !.requests = tts.requests,
                               !.callTimes = tts.callTimes,
                               !.served = tts.served + 1 ]
    /\ UNCHANGED ttsUnchanged

\* time passes
Tick ==
    /\ tts.now < MaxClock
    /\ tts' = [ tts EXCEPT !.now = @ + TickMs ]
    /\ UNCHANGED ttsUnchanged

NextRate ==
    \/ /\ GenerateAudio
       /\ tts'.pc # "threw"
       /\ tts'.maxRetries = 0
       /\ tts'.baseSeed = 0
       /\ tts'.text = << "Hello", "there" >>
    \/ AwaitSlot
    \/ GenerateContent
    \/ WriteAudioFile
    \/ NextRequest
    \/ Tick

SpecRate == InitRate /\ [][NextRate]_vars

\* the generateContent calls made in the window that starts with the k-th
CallsInWindowFrom(k) ==
    { j \in k..Len(tts.callTimes) : tts.callTimes[j] - tts.callTimes[k] < windowMs }

\* C37: no window of 60 seconds holds more generateContent calls than
\* rateLimit
C37_CallsPerWindowWithinLimit ==
    \A k \in 1..Len(tts.callTimes) :
        Cardinality(CallsInWindowFrom(k)) <= tts.rateLimit

(***************************************************************************)
(* processWithConcurrency under fair scheduling: an invocation of the      *)
(* processor that is awaited settles, and the continuation of a fulfilled  *)
(* Promise.all runs.                                                       *)
(***************************************************************************)
SpecPoolLive ==
    /\ InitPool
    /\ [][NextPool]_vars
    /\ WF_vars(ProcessorSettles)
    /\ WF_vars(ReturnResults)

\* C38: a processWithConcurrency call with a concurrency of at least 1 (4
\* when none is given) and a progress callback, when one is given, that
\* returns normally, eventually returns its results, whatever the number of
\* items
C38_EventuallyReturns ==
    (pool.pc = "running" /\ LimitK >= 1 /\ pool.onProgress # "throws")
        ~> (pool.outcome = "returned")

\* a call with more workers allowed than items has returned after every
\* item was processed
C38_Witness ==
    /\ pool.outcome = "returned"
    /\ pool.given = Some(MaxItems + 1)
    /\ Len(pool.items) = 2
    /\ pool.completedCount = 2
    /\ pool.onProgress = "none"

====
